---- MODULE Spec2Model ----
(***************************************************************************)
(* Model of the BND3 / BND4 binder codec of soulstruct                     *)
(* (src/soulstruct/containers/bnd/core.py).                                *)
(*                                                                         *)
(* Bytes are integers 0..255, byte strings and text strings are sequences  *)
(* (text: sequences of code points).  Python's None is NoneId for an entry *)
(* ID and NonePath for an entry path.  An archive object is a record; the  *)
(* operations are operators from the record (and their arguments) to a     *)
(* record holding the raised exception (status) and the archive after the  *)
(* call.                                                                   *)
(***************************************************************************)
EXTENDS Integers, Sequences, FiniteSets, TLC

VARIABLES bnd, packed, last, h_in, h_in2, h_count, h_out, disk

vars == <<bnd, packed, last, h_in, h_in2, h_count, h_out, disk>>

(***************************************************************************)
(* Bounds of the model.                                                    *)
(***************************************************************************)
MaxEntries == 3
MaxV4Entries == 2
MaxPathLen == 3
MaxCount == 60

(***************************************************************************)
(* Python values.                                                          *)
(***************************************************************************)
NoneId == -1
NonePath == << -1 >>

Slash == 47
Backslash == 92
CharA == 97
CharB == 98
Kana == 65393

\* An integer too large for the field arithmetic of the model: what a field
\* read with the wrong byte order decodes to.
Huge == 1073741824

Min(a, b) == IF a < b THEN a ELSE b

RECURSIVE SumSeq(_)
SumSeq(s) == IF s = <<>> THEN 0 ELSE Head(s) + SumSeq(Tail(s))

Reverse(s) == [i \in 1..Len(s) |-> s[Len(s) + 1 - i]]

Zeros(n) == [i \in 1..n |-> 0]

\* buffer.seek(off); buffer.read(n): a short read at the end of the buffer.
Slice(bs, off, n) ==
    IF off >= Len(bs) \/ n <= 0 THEN <<>>
    ELSE SubSeq(bs, off + 1, Min(off + n, Len(bs)))

(***************************************************************************)
(* struct: fixed-width integer fields.                                     *)
(***************************************************************************)
Pow256(k) == IF k = 0 THEN 1 ELSE IF k = 1 THEN 256 ELSE IF k = 2 THEN 65536 ELSE 16777216

\* Little-endian bytes of v in w bytes (two's complement for -1).
IntLE(v, w) ==
    [k \in 1..w |->
        IF v < 0 THEN 255
        ELSE IF k <= 4 THEN (v \div Pow256(k - 1)) % 256 ELSE 0]

PackInt(v, w, big) == IF big THEN Reverse(IntLE(v, w)) ELSE IntLE(v, w)

UnpackLE(bs, signed) ==
    IF bs = <<>> THEN 0
    ELSE IF signed /\ \A k \in 1..Len(bs) : bs[k] = 255 THEN -1
    ELSE IF \E k \in 1..Len(bs) : (k > 4 /\ bs[k] # 0) \/ (k = 4 /\ bs[k] >= 64) THEN Huge
    ELSE SumSeq([k \in 1..Min(Len(bs), 4) |-> bs[k] * Pow256(k - 1)])

UnpackInt(bs, big, signed) == UnpackLE(IF big THEN Reverse(bs) ELSE bs, signed)

PackBool(b) == IF b THEN <<1>> ELSE <<0>>

\* "8s": the text padded with NULs to 8 bytes; unpack strips the trailing NULs.
PackSignature(sig) == sig \o Zeros(8 - Len(sig))

RECURSIVE RStripNul(_)
RStripNul(bs) ==
    IF bs = <<>> THEN <<>>
    ELSE IF bs[Len(bs)] = 0 THEN RStripNul(SubSeq(bs, 1, Len(bs) - 1))
    ELSE bs

(***************************************************************************)
(* Format variant rules (soulstruct.containers.bnd.magic): bit tests on    *)
(* the magic byte.                                                         *)
(***************************************************************************)
Bit(m, b) == (m \div b) % 2 = 1

is_big_endian(magic) == Bit(magic, 1) /\ ~Bit(magic, 128)

has_id(magic) == Bit(magic, 64)

has_path(magic) == Bit(magic, 32) \/ Bit(magic, 16)

has_uncompressed_size(magic) == Bit(magic, 4)

is_entry_compressed(magic) == Bit(magic, 128)

\* The V4 entry header size the rules give for a magic.
header_size(magic) ==
    20 + (IF has_uncompressed_size(magic) THEN 8 ELSE 0)
       + (IF has_id(magic) THEN 4 ELSE 0)
       + (IF has_path(magic) THEN 4 ELSE 0)
       + (IF magic = 32 THEN 8 ELSE 0)

(***************************************************************************)
(* Text encoding of paths ("shift-jis") and NUL-terminated reads.          *)
(***************************************************************************)
\* str.encode("shift-jis"), one character: ASCII is one byte, half-width
\* katakana U+FF61..U+FF9F is the single byte 0xA1..0xDF.
EncodeChar(c) == IF c < 128 THEN c ELSE c - 65377 + 161

DecodeChar(b) == IF b < 128 THEN b ELSE b - 161 + 65377

EncodeText(s) == [i \in 1..Len(s) |-> EncodeChar(s[i])]

DecodeText(bs) == [i \in 1..Len(bs) |-> DecodeChar(bs[i])]

\* Index (1-based) of the first NUL of bs at or after position off + 1, 0 if none.
RECURSIVE FindNul(_, _)
FindNul(bs, off) ==
    IF off >= Len(bs) THEN 0
    ELSE IF bs[off + 1] = 0 THEN off + 1
    ELSE FindNul(bs, off + 1)

\* read_chars_from_buffer(buffer, offset=off, encoding="shift-jis"): the text up
\* to the NUL; ValueError when the buffer ends first.
read_chars_from_buffer(bs, off) ==
    LET z == FindNul(bs, off) IN
    IF z = 0 THEN [status |-> "ValueError", text |-> <<>>]
    ELSE [status |-> "ok", text |-> DecodeText(SubSeq(bs, off + 1, z - 1))]

(***************************************************************************)
(* zlib: a stream is a two-byte header, the payload and a check byte.      *)
(***************************************************************************)
ZChecksum(data) == SumSeq(data) % 251

zlib_compress(data) == <<120, 218>> \o data \o <<ZChecksum(data)>>

zlib_decompress(bs) ==
    IF Len(bs) >= 3 /\ bs[1] = 120 /\ bs[2] = 218
       /\ bs[Len(bs)] = ZChecksum(SubSeq(bs, 3, Len(bs) - 1))
    THEN [status |-> "ok", data |-> SubSeq(bs, 3, Len(bs) - 1)]
    ELSE [status |-> "zlib.error", data |-> <<>>]

(***************************************************************************)
(* BNDEntry.                                                               *)
(***************************************************************************)
BNDEntry(data, entry_id, path, magic) ==
    [data |-> data, id |-> entry_id, path |-> path, magic |-> magic]

\* BNDEntry.__eq__
EntryEq(e1, e2) ==
    /\ e1.id = e2.id
    /\ e1.path = e2.path
    /\ e1.magic = e2.magic
    /\ e1.data = e2.data

\* Packing that leaves every entry's data as it is.
NeverCompress(entry) == [data |-> entry.data, is_compressed |-> FALSE]

\* BNDEntry.get_data_for_pack
get_data_for_pack(entry) ==
    IF is_entry_compressed(entry.magic)
    THEN [data |-> zlib_compress(entry.data), is_compressed |-> TRUE]
    ELSE [data |-> entry.data, is_compressed |-> FALSE]

\* BNDEntry.get_packed_path
get_packed_path(entry) == EncodeText(entry.path) \o <<0>>

IsSep(c) == c = Slash \/ c = Backslash

\* Index of the last separator of a path, 0 if none.
RECURSIVE LastSep(_, _)
LastSep(p, i) == IF i = 0 THEN 0 ELSE IF IsSep(p[i]) THEN i ELSE LastSep(p, i - 1)

\* BNDEntry.name: Path(self.path).name, the final component of the path.
EntryName(entry) == SubSeq(entry.path, LastSep(entry.path, Len(entry.path)) + 1, Len(entry.path))

(***************************************************************************)
(* BND4 hash table.                                                        *)
(***************************************************************************)
RECURSIVE IsPrimeLoop(_, _)
IsPrimeLoop(p, i) ==
    IF i >= p \div 2 THEN TRUE
    ELSE IF p % i = 0 THEN FALSE
    ELSE IF i * i > p THEN TRUE
    ELSE IsPrimeLoop(p, i + 2)

\* A test that takes 2 and every odd number from 3 for prime.
IsTwoOrOdd(p) == p = 2 \/ (p >= 3 /\ p % 2 = 1)

\* BND4.is_prime
is_prime(p) ==
    IF p < 2 THEN FALSE
    ELSE IF p = 2 THEN TRUE
    ELSE IF p % 2 = 0 THEN FALSE
    ELSE IsPrimeLoop(p, 3)

GroupSearchEnd == 100000

RECURSIVE FirstPrimeFrom(_)
FirstPrimeFrom(p) ==
    IF p >= GroupSearchEnd THEN -1
    ELSE IF is_prime(p) THEN p
    ELSE FirstPrimeFrom(p + 1)

\* A group count that rounds the quotient up.
GroupCountRoundedUp(n) == FirstPrimeFrom((n + 6) \div 7)

\* build_hash_table, group count for an entry count (-1: ValueError).
GroupCount(n) == FirstPrimeFrom(n \div 7)

\* A replace that leaves the backslashes.
ReplaceNothing(s) == s

\* path_hash: hashable = path_string.replace("\\", "/")
ReplaceBackslash(s) == [i \in 1..Len(s) |-> IF s[i] = Backslash THEN Slash ELSE s[i]]

Hashable(s) ==
    LET r == ReplaceBackslash(s) IN
    IF Len(r) > 0 /\ r[1] = Slash THEN r ELSE <<Slash>> \o r

\* for i, s in enumerate(hashable): h += i * 37 + ord(s)
RECURSIVE HashLoop(_, _, _)
HashLoop(hashable, i, h) ==
    IF i >= Len(hashable) THEN h
    ELSE HashLoop(hashable, i + 1, h + i * 37 + hashable[i + 1])

\* A path_hash that counts the positions from 1.
PathHashFromOne(path_string) == HashLoop(<<0>> \o Hashable(path_string), 1, 0)

\* BND4.path_hash
path_hash(path_string) == HashLoop(Hashable(path_string), 0, 0)

\* Tuple order of Python on (hash, entry_index) pairs.
PairLess(a, b) == a[1] < b[1] \/ (a[1] = b[1] /\ a[2] < b[2])

RECURSIVE InsertSorted(_, _)
InsertSorted(s, x) ==
    IF s = <<>> THEN <<x>>
    ELSE IF PairLess(x, Head(s)) THEN <<x>> \o s
    ELSE <<Head(s)>> \o InsertSorted(Tail(s), x)

\* A sort that leaves the list as it is.
NoSort(s) == s

\* list.sort() on a list of pairs
RECURSIVE SortPairs(_)
SortPairs(s) == IF s = <<>> THEN <<>> ELSE InsertSorted(SortPairs(Tail(s)), Head(s))

\* hash_lists[list_index], before the sort: the (hash, entry_index) pairs of the
\* entries whose hash is list_index modulo group_count, in entry order.
RECURSIVE BucketOf(_, _, _, _)
BucketOf(entries, group_count, list_index, entry_index) ==
    IF entry_index >= Len(entries) THEN <<>>
    ELSE LET h == path_hash(entries[entry_index + 1].path) IN
         (IF h % group_count = list_index THEN << <<h, entry_index>> >> ELSE <<>>)
         \o BucketOf(entries, group_count, list_index, entry_index + 1)

\* hash_lists after "for hash_list in hash_lists: hash_list.sort()"
HashLists(entries) ==
    LET group_count == GroupCount(Len(entries)) IN
    [g \in 1..group_count |-> SortPairs(BucketOf(entries, group_count, g - 1, 0))]

RECURSIVE Flatten(_)
Flatten(ss) == IF ss = <<>> THEN <<>> ELSE Head(ss) \o Flatten(Tail(ss))

\* Group records that all start at index 0.
HashGroupsFromZero(hash_lists, total_hash_count) ==
    [g \in 1..Len(hash_lists) |-> [index |-> 0, length |-> Len(hash_lists[g])]]

\* hash_groups: (index, length) of each group in the flattened array.
RECURSIVE HashGroups(_, _)
HashGroups(hash_lists, total_hash_count) ==
    IF hash_lists = <<>> THEN <<>>
    ELSE << [index |-> total_hash_count, length |-> Len(Head(hash_lists))] >>
         \o HashGroups(Tail(hash_lists), total_hash_count + Len(Head(hash_lists)))

HashTableHeaderSize == 24
HashTableTag == 526352

\* HASH_GROUP_STRUCT: ("length", "i"), ("index", "i")
PackHashGroup(g) == PackInt(g.length, 4, FALSE) \o PackInt(g.index, 4, FALSE)

\* PATH_HASH_STRUCT: ("hashed_value", "I"), ("entry_index", "i")
PackPathHash(ph) == PackInt(ph[1], 4, FALSE) \o PackInt(ph[2], 4, FALSE)

\* BND4.build_hash_table
build_hash_table(entries) ==
    LET group_count == GroupCount(Len(entries))
        hash_lists == HashLists(entries)
        hash_groups == HashGroups(hash_lists, 0)
        path_hashes == Flatten(hash_lists)
        packed_hash_groups == Flatten([i \in 1..Len(hash_groups) |-> PackHashGroup(hash_groups[i])])
        packed_hash_table_header ==
            Zeros(8) \o PackInt(HashTableHeaderSize + Len(packed_hash_groups), 8, FALSE)
                     \o PackInt(group_count, 4, FALSE) \o PackInt(HashTableTag, 4, FALSE)
        packed_path_hashes == Flatten([i \in 1..Len(path_hashes) |-> PackPathHash(path_hashes[i])])
    IN packed_hash_table_header \o packed_hash_groups \o packed_path_hashes

(***************************************************************************)
(* BaseBND: the archive object and its entry collection.                   *)
(***************************************************************************)
\* BaseBND.__init__ (with BND3.__init__ / BND4.__init__): an empty archive.
NewBND(version) ==
    [version |-> version, signature |-> <<>>, magic |-> -1, big_endian |-> FALSE,
     unknown |-> FALSE, flag1 |-> FALSE, flag2 |-> FALSE,
     hash_table_type |-> 0, hash_table_offset |-> 0,
     most_recent_hash_table |-> <<>>, most_recent_entry_count |-> 0,
     most_recent_paths |-> <<>>, header_struct |-> "None", entries |-> <<>>]

\* entries_by_id raises BNDError when two entries have the same ID.
entries_by_id_raises(entries) ==
    \E i, j \in 1..Len(entries) : i < j /\ entries[i].id = entries[j].id

\* An entries_by_path that keeps the last entry of a repeated path.
EntriesByPathNeverRaises(entries) == FALSE

\* entries_by_path raises ValueError when two entries have the same path.
entries_by_path_raises(entries) ==
    \E i, j \in 1..Len(entries) : i < j /\ entries[i].path = entries[j].path

\* entries_by_basename: entry.name raises TypeError for a path of None (the
\* loop meets it before or after a repeated name), ValueError on a repeated name.
entries_by_basename_status(entries) ==
    LET bad(k) == \/ entries[k].path = NonePath
                  \/ \E i \in 1..(k - 1) : EntryName(entries[i]) = EntryName(entries[k])
    IN IF \A k \in 1..Len(entries) : ~bad(k) THEN "ok"
       ELSE LET k == CHOOSE k \in 1..Len(entries) : bad(k) /\ \A j \in 1..(k - 1) : ~bad(j)
            IN IF entries[k].path = NonePath THEN "TypeError" ELSE "ValueError"

\* An add_entry without the check for an equal entry.
AddEntryUnchecked(b, entry) ==
    IF entries_by_id_raises(b.entries)
    THEN [status |-> "BNDError", warned |-> FALSE, bnd |-> b]
    ELSE [status |-> "ok",
          warned |-> \E i \in 1..Len(b.entries) : b.entries[i].id = entry.id,
          bnd |-> [b EXCEPT !.entries = Append(@, entry)]]

\* BaseBND.add_entry
add_entry(b, entry) ==
    IF \E i \in 1..Len(b.entries) : EntryEq(entry, b.entries[i])
    THEN [status |-> "BNDError", warned |-> FALSE, bnd |-> b]
    ELSE IF entries_by_id_raises(b.entries)
    THEN [status |-> "BNDError", warned |-> FALSE, bnd |-> b]
    ELSE [status |-> "ok",
          warned |-> \E i \in 1..Len(b.entries) : b.entries[i].id = entry.id,
          bnd |-> [b EXCEPT !.entries = Append(@, entry)]]

\* list.remove(entry): removes the first element equal to entry.
RECURSIVE ListRemove(_, _)
ListRemove(s, entry) ==
    IF s = <<>> THEN <<>>
    ELSE IF EntryEq(Head(s), entry) THEN Tail(s)
    ELSE <<Head(s)>> \o ListRemove(Tail(s), entry)

\* A key is [kind |-> "int", id |-> n] or [kind |-> "str", text |-> s].
\* The lookup of __getitem__ and remove_entry: the exception it raises and, when
\* it raises none, the index of the entry it returns.
Lookup(entries, key) ==
    IF key.kind = "int"
    THEN IF entries_by_id_raises(entries) THEN [status |-> "BNDError", index |-> 0]
         ELSE IF \E i \in 1..Len(entries) : entries[i].id = key.id
         THEN [status |-> "ok", index |-> CHOOSE i \in 1..Len(entries) : entries[i].id = key.id]
         ELSE [status |-> "KeyError", index |-> 0]
    ELSE IF entries_by_path_raises(entries) THEN [status |-> "ValueError", index |-> 0]
         ELSE IF \E i \in 1..Len(entries) : entries[i].path = key.text
         THEN [status |-> "ok", index |-> CHOOSE i \in 1..Len(entries) : entries[i].path = key.text]
         ELSE IF entries_by_basename_status(entries) # "ok"
         THEN [status |-> entries_by_basename_status(entries), index |-> 0]
         ELSE IF \E i \in 1..Len(entries) : EntryName(entries[i]) = key.text
         THEN [status |-> "ok",
               index |-> CHOOSE i \in 1..Len(entries) : EntryName(entries[i]) = key.text]
         ELSE [status |-> "KeyError", index |-> 0]

\* BaseBND.__getitem__
getitem(b, key) == Lookup(b.entries, key)

\* BaseBND.remove_entry
remove_entry(b, key) ==
    LET r == Lookup(b.entries, key) IN
    IF r.status # "ok" THEN [status |-> r.status, bnd |-> b]
    ELSE [status |-> "ok",
          bnd |-> [b EXCEPT !.entries = ListRemove(@, b.entries[r.index])]]

\* BaseBND.clear_entries
clear_entries(b) == [b EXCEPT !.entries = <<>>]

(***************************************************************************)
(* Binary layout.                                                          *)
(***************************************************************************)
TagBND3 == <<66, 78, 68, 51>>
TagBND4 == <<66, 78, 68, 52>>

HeaderSizeV3 == 32
HeaderSizeV4 == 64
EntryPad == 10

\* BND3: self.entry_header_struct.size
EntryHeaderSizeV3(magic) ==
    12 + (IF has_id(magic) THEN 4 ELSE 0)
       + (IF has_path(magic) THEN 4 ELSE 0)
       + (IF has_uncompressed_size(magic) THEN 4 ELSE 0)

\* An entry header size that ignores the optional fields.
EntryHeaderSizeFixed(magic) == 24

\* BND4: self.entry_header_struct.size
EntryHeaderSizeV4(magic) ==
    16 + (IF has_uncompressed_size(magic) THEN 8 ELSE 0)
       + 4
       + (IF has_id(magic) THEN 4 ELSE 0)
       + (IF has_path(magic) THEN 4 ELSE 0)
       + (IF magic = 32 THEN 8 ELSE 0)

\* The "b" field of the archive magic.
PackSByte(v) == IF v < 0 THEN <<v + 256>> ELSE <<v>>

UnpackSByte(b) == IF b >= 128 THEN b - 256 ELSE b

\* A sorted() that returns the list as it is.
NotSortedById(s) == s

\* sorted(self._entries, key=lambda e: e.id): a stable sort.
RECURSIVE InsertById(_, _)
InsertById(s, e) ==
    IF s = <<>> THEN <<e>>
    ELSE IF e.id < Head(s).id THEN <<e>> \o s
    ELSE <<Head(s)>> \o InsertById(Tail(s), e)

RECURSIVE SortedById(_)
SortedById(s) ==
    IF s = <<>> THEN <<>>
    ELSE InsertById(SortedById(SubSeq(s, 1, Len(s) - 1)), s[Len(s)])

\* The entry loop of pack: the header dicts with relative offsets, the packed
\* paths and the packed data.  pad is the number of zero bytes put before the
\* data of each entry (BND4), 0 for BND3.
RECURSIVE PackLoop(_, _, _, _)
PackLoop(entries, magic, pad, acc) ==
    IF entries = <<>> THEN acc
    ELSE
      LET entry == Head(entries)
          data0 == acc.data \o Zeros(pad)
          for_pack == get_data_for_pack(entry)
          dict == [entry_magic |-> entry.magic,
                   compressed_data_size |->
                       IF for_pack.is_compressed THEN Len(for_pack.data) ELSE Len(entry.data),
                   data_offset |-> Len(data0),
                   entry_id |-> entry.id,
                   path_offset |-> Len(acc.paths),
                   uncompressed_data_size |-> Len(entry.data)]
      IN PackLoop(Tail(entries), magic, pad,
                  [dicts |-> Append(acc.dicts, dict),
                   paths |-> IF has_path(magic) THEN acc.paths \o get_packed_path(entry)
                             ELSE acc.paths,
                   data |-> data0 \o for_pack.data])

EmptyAcc == [dicts |-> <<>>, paths |-> <<>>, data |-> <<>>]

\* Entry headers whose data offsets stay relative to the data section.
PackEntryHeaderV3Relative(d, magic, big, path_base, data_base) ==
    <<d.entry_magic>> \o Zeros(3)
    \o PackInt(d.compressed_data_size, 4, big)
    \o PackInt(d.data_offset, 4, big)
    \o (IF has_id(magic) THEN PackInt(d.entry_id, 4, big) ELSE <<>>)
    \o (IF has_path(magic) THEN PackInt(d.path_offset + path_base, 4, big) ELSE <<>>)
    \o (IF has_uncompressed_size(magic) THEN PackInt(d.uncompressed_data_size, 4, big) ELSE <<>>)

\* BND3 entry_header_struct.pack of a dict whose offsets are rebased.
PackEntryHeaderV3(d, magic, big, path_base, data_base) ==
    <<d.entry_magic>> \o Zeros(3)
    \o PackInt(d.compressed_data_size, 4, big)
    \o PackInt(d.data_offset + data_base, 4, big)
    \o (IF has_id(magic) THEN PackInt(d.entry_id, 4, big) ELSE <<>>)
    \o (IF has_path(magic) THEN PackInt(d.path_offset + path_base, 4, big) ELSE <<>>)
    \o (IF has_uncompressed_size(magic) THEN PackInt(d.uncompressed_data_size, 4, big) ELSE <<>>)

\* BND4 entry_header_struct.pack of a dict whose offsets are rebased.
PackEntryHeaderV4(d, magic, big, path_base, data_base) ==
    <<d.entry_magic>> \o Zeros(3)
    \o PackInt(-1, 4, big)
    \o PackInt(d.compressed_data_size, 8, big)
    \o (IF has_uncompressed_size(magic) THEN PackInt(d.uncompressed_data_size, 8, big) ELSE <<>>)
    \o PackInt(d.data_offset + data_base, 4, big)
    \o (IF has_id(magic) THEN PackInt(d.entry_id, 4, big) ELSE <<>>)
    \o (IF has_path(magic) THEN PackInt(d.path_offset + path_base, 4, big) ELSE <<>>)
    \o (IF magic = 32 THEN Zeros(8) ELSE <<>>)

\* The exception the entry loop of pack raises: a path of None cannot be
\* encoded, an ID of None cannot be packed in an "i" field.
PackLoopStatus(entries, magic) ==
    IF has_path(magic) /\ \E i \in 1..Len(entries) : entries[i].path = NonePath
    THEN "AttributeError"
    ELSE IF has_id(magic) /\ \E i \in 1..Len(entries) : entries[i].id = NoneId
    THEN "struct.error"
    ELSE "ok"


\* BND3.pack, for an archive whose header structs exist.
PackV3Bytes(b) ==
    IF Len(b.entries) >= 2 /\ \E i \in 1..Len(b.entries) : b.entries[i].id = NoneId
    THEN [status |-> "TypeError", bytes |-> <<>>, table |-> <<>>, bnd |-> b]
    ELSE IF PackLoopStatus(b.entries, b.magic) # "ok"
    THEN [status |-> PackLoopStatus(b.entries, b.magic), bytes |-> <<>>, table |-> <<>>, bnd |-> b]
    ELSE
      LET acc == PackLoop(SortedById(b.entries), b.magic, 0, EmptyAcc)
          entry_header_table_offset == HeaderSizeV3
          entry_path_table_offset ==
              entry_header_table_offset + EntryHeaderSizeV3(b.magic) * Len(b.entries)
          entry_packed_data_offset == entry_path_table_offset + Len(acc.paths)
          bnd_file_size == entry_packed_data_offset + Len(acc.data)
          packed_header ==
              TagBND3 \o PackSignature(b.signature) \o PackSByte(b.magic)
              \o PackBool(b.big_endian) \o PackBool(b.unknown) \o <<0>>
              \o PackInt(Len(b.entries), 4, b.big_endian)
              \o PackInt(bnd_file_size, 4, b.big_endian) \o Zeros(8)
          packed_entry_headers ==
              Flatten([i \in 1..Len(acc.dicts) |->
                  PackEntryHeaderV3(acc.dicts[i], b.magic, b.big_endian,
                                    entry_path_table_offset, entry_packed_data_offset)])
      IN [status |-> "ok",
          bytes |-> packed_header \o packed_entry_headers \o acc.paths \o acc.data,
          table |-> <<>>,
          bnd |-> b]

\* BND3.pack: self.header_struct is None until unpack or create_header_structs
\* made it, and holds only the first fields when unpack raised early.
PackV3(b) ==
    LET r == PackV3Bytes(b) IN
    IF r.status = "ok" /\ b.header_struct # "FULL"
    THEN [r EXCEPT !.status = IF b.header_struct = "None" THEN "AttributeError" ELSE "ValueError",
                   !.bytes = <<>>]
    ELSE r

\* A rebuild decision that compares the entry count only.
RebuildOnCountOnly(b) ==
    \/ b.most_recent_hash_table = <<>>
    \/ Len(b.entries) # b.most_recent_entry_count

\* BND4.pack, the decision to rebuild the hash table.
RebuildHashTable(b) ==
    \/ b.most_recent_hash_table = <<>>
    \/ Len(b.entries) # b.most_recent_entry_count
    \/ \E i \in 1..Len(b.entries) : b.entries[i].path # b.most_recent_paths[i]

\* BND4.pack, for an archive whose header structs exist.
PackV4Bytes(b) ==
    LET rebuild_hash_table == RebuildHashTable(b)
        b1 == [b EXCEPT !.most_recent_entry_count = Len(b.entries),
                        !.most_recent_paths = [i \in 1..Len(b.entries) |-> b.entries[i].path]]
    IN
    IF PackLoopStatus(b.entries, b.magic) # "ok"
    THEN [status |-> PackLoopStatus(b.entries, b.magic), bytes |-> <<>>, table |-> <<>>, bnd |-> b1]
    ELSE IF b.hash_table_type = 4 /\ rebuild_hash_table
            /\ \E i \in 1..Len(b.entries) : b.entries[i].path = NonePath
    THEN [status |-> "AttributeError", bytes |-> <<>>, table |-> <<>>, bnd |-> b1]
    ELSE
      LET acc == PackLoop(b.entries, b.magic, EntryPad, EmptyAcc)
          entry_header_table_offset == HeaderSizeV4
          entry_path_table_offset ==
              entry_header_table_offset + EntryHeaderSizeV4(b.magic) * Len(b.entries)
          hash_table_offset ==
              IF b.hash_table_type = 4 THEN entry_path_table_offset + Len(acc.paths) ELSE 0
          packed_hash_table ==
              IF b.hash_table_type = 4
              THEN IF rebuild_hash_table THEN build_hash_table(b.entries)
                   ELSE b.most_recent_hash_table
              ELSE <<>>
          entry_packed_data_offset ==
              IF b.hash_table_type = 4 THEN hash_table_offset + Len(packed_hash_table)
              ELSE entry_path_table_offset + Len(acc.paths)
          packed_header ==
              TagBND4 \o PackBool(b.flag1) \o PackBool(b.flag2) \o Zeros(2)
              \o PackInt(IF b.big_endian THEN 1 ELSE 0, 4, FALSE)
              \o PackInt(Len(b.entries), 4, b.big_endian)
              \o PackInt(HeaderSizeV4, 8, b.big_endian)
              \o PackSignature(b.signature)
              \o PackInt(EntryHeaderSizeV4(b.magic), 8, b.big_endian)
              \o PackInt(entry_packed_data_offset, 8, b.big_endian)
              \o PackBool(FALSE)
              \o PackSByte(b.magic)
              \o <<b.hash_table_type>> \o Zeros(5)
              \o PackInt(hash_table_offset, 8, b.big_endian)
          packed_entry_headers ==
              Flatten([i \in 1..Len(acc.dicts) |->
                  PackEntryHeaderV4(acc.dicts[i], b.magic, b.big_endian,
                                    entry_path_table_offset, entry_packed_data_offset)])
      IN [status |-> "ok",
          bytes |-> packed_header \o packed_entry_headers \o acc.paths
                    \o packed_hash_table \o acc.data,
          table |-> packed_hash_table,
          bnd |-> b1]

\* BND4.pack
PackV4(b) ==
    LET r == PackV4Bytes(b) IN
    IF r.status = "ok" /\ b.header_struct # "FULL"
    THEN [r EXCEPT !.status = IF b.header_struct = "None" THEN "AttributeError" ELSE "ValueError",
                   !.bytes = <<>>, !.table = <<>>]
    ELSE r

\* pack of the archive's class
Pack(b) == IF b.version = "BND3" THEN PackV3(b) ELSE PackV4(b)

(***************************************************************************)
(* unpack.                                                                 *)
(***************************************************************************)
\* bytes.decode(): the bytes are well-formed UTF-8.
RECURSIVE Utf8Ok(_)
Utf8Ok(s) ==
    LET Cont(i, lo, hi) == i <= Len(s) /\ s[i] >= lo /\ s[i] <= hi
        b == s[1]
    IN IF s = <<>> THEN TRUE
       ELSE IF b < 128 THEN Utf8Ok(SubSeq(s, 2, Len(s)))
       ELSE IF b >= 194 /\ b <= 223
       THEN Cont(2, 128, 191) /\ Utf8Ok(SubSeq(s, 3, Len(s)))
       ELSE IF b >= 224 /\ b <= 239
       THEN /\ Cont(2, IF b = 224 THEN 160 ELSE 128, IF b = 237 THEN 159 ELSE 191)
            /\ Cont(3, 128, 191)
            /\ Utf8Ok(SubSeq(s, 4, Len(s)))
       ELSE IF b >= 240 /\ b <= 244
       THEN /\ Cont(2, IF b = 240 THEN 144 ELSE 128, IF b = 244 THEN 143 ELSE 191)
            /\ Cont(3, 128, 191)
            /\ Cont(4, 128, 191)
            /\ Utf8Ok(SubSeq(s, 5, Len(s)))
       ELSE FALSE

\* One record of the entry header table at offset off.
ParseEntryHeader(bs, off, version, magic, big) ==
    LET f(o, w, signed) == UnpackInt(Slice(bs, off + o, w), big, signed)
        unc == IF has_uncompressed_size(magic) THEN 1 ELSE 0
        hid == IF has_id(magic) THEN 1 ELSE 0
    IN IF version = "BND3"
       THEN [entry_magic |-> bs[off + 1],
             minus_one |-> -1,
             compressed_data_size |-> f(4, 4, TRUE),
             data_offset |-> f(8, 4, TRUE),
             entry_id |-> IF has_id(magic) THEN f(12, 4, TRUE) ELSE NoneId,
             path_offset |-> f(12 + 4 * hid, 4, TRUE)]
       ELSE [entry_magic |-> bs[off + 1],
             minus_one |-> f(4, 4, TRUE),
             compressed_data_size |-> f(8, 8, TRUE),
             data_offset |-> f(16 + 8 * unc, 4, FALSE),
             entry_id |-> IF has_id(magic) THEN f(20 + 8 * unc, 4, TRUE) ELSE NoneId,
             path_offset |-> f(20 + 8 * unc + 4 * hid, 4, TRUE)]

\* The body of the loop of BNDEntry.unpack for one header dict d.
UnpackEntry(bs, d, magic) ==
    LET p == IF has_path(magic) /\ d.path_offset >= 0
             THEN read_chars_from_buffer(bs, d.path_offset)
             ELSE [status |-> "ok", text |-> NonePath]
        raw == Slice(bs, d.data_offset, d.compressed_data_size)
        z == IF is_entry_compressed(d.entry_magic) THEN zlib_decompress(raw)
             ELSE [status |-> "ok", data |-> raw]
    IN IF d.minus_one # -1 \/ d.data_offset < 0 \/ (has_path(magic) /\ d.path_offset < 0)
       THEN [status |-> "ValueError", entry |-> BNDEntry(<<>>, NoneId, NonePath, 0)]
       ELSE IF p.status # "ok"
       THEN [status |-> p.status, entry |-> BNDEntry(<<>>, NoneId, NonePath, 0)]
       ELSE IF z.status # "ok"
       THEN [status |-> z.status, entry |-> BNDEntry(<<>>, NoneId, NonePath, 0)]
       ELSE [status |-> "ok", entry |-> BNDEntry(z.data, d.entry_id, p.text, d.entry_magic)]

RECURSIVE UnpackEntriesLoop(_, _, _, _, _, _, _, _)
UnpackEntriesLoop(bs, off, size, i, count, version, magic, big) ==
    IF i >= count THEN [status |-> "ok", entries |-> <<>>]
    ELSE LET r == UnpackEntry(bs, ParseEntryHeader(bs, off + i * size, version, magic, big), magic)
         IN IF r.status # "ok" THEN [status |-> r.status, entries |-> <<>>]
            ELSE LET rest == UnpackEntriesLoop(bs, off, size, i + 1, count, version, magic, big)
                 IN IF rest.status # "ok" THEN rest
                    ELSE [status |-> "ok", entries |-> <<r.entry>> \o rest.entries]

\* BNDEntry.unpack: count header records read at off, then the entries.
UnpackEntries(bs, off, count, version, magic, big) ==
    LET size == IF version = "BND3" THEN EntryHeaderSizeV3(magic) ELSE EntryHeaderSizeV4(magic)
    IN IF count < 0 \/ count > Len(bs) \/ off + count * size > Len(bs)
       THEN [status |-> "struct.error", entries |-> <<>>]
       ELSE UnpackEntriesLoop(bs, off, size, 0, count, version, magic, big)

\* "for entry in ...: self.add_entry(entry)": stops at the first exception.
RECURSIVE AddAll(_, _)
AddAll(b, entries) ==
    IF entries = <<>> THEN [status |-> "ok", bnd |-> b]
    ELSE LET r == add_entry(b, Head(entries))
         IN IF r.status # "ok" THEN [status |-> r.status, bnd |-> r.bnd]
            ELSE AddAll(r.bnd, Tail(entries))

\* BND3.unpack
UnpackV3(b0, bs) ==
    LET b == [b0 EXCEPT !.header_struct = "START"] IN
    IF Len(bs) < 14 THEN [status |-> "struct.error", bnd |-> b]
    ELSE IF ~Utf8Ok(SubSeq(bs, 1, 4)) THEN [status |-> "UnicodeDecodeError", bnd |-> b]
    ELSE IF SubSeq(bs, 1, 4) # TagBND3 THEN [status |-> "BNDError", bnd |-> b]
    ELSE
      LET magic == UnpackSByte(bs[13])
          big == bs[14] # 0 \/ is_big_endian(magic)
          b1 == [b EXCEPT !.signature = DecodeText(RStripNul(SubSeq(bs, 5, 12))),
                          !.magic = magic,
                          !.big_endian = big]
      IN IF Len(bs) < HeaderSizeV3 THEN [status |-> "struct.error", bnd |-> b1]
         ELSE IF bs[16] # 0 THEN [status |-> "ValueError", bnd |-> b1]
         ELSE
           LET b2 == [b1 EXCEPT !.unknown = bs[15] # 0, !.header_struct = "FULL"]
               entry_count == UnpackInt(Slice(bs, 16, 4), big, TRUE)
               es == UnpackEntries(bs, HeaderSizeV3, entry_count, "BND3", magic, big)
           IN IF es.status # "ok" THEN [status |-> es.status, bnd |-> b2]
              ELSE AddAll(b2, es.entries)

BigEndianMarker == 256

\* A read of the hash table that runs to the end of the buffer.
ReadHashTableToEnd(bs, hash_table_offset, data_offset) ==
    Slice(bs, hash_table_offset, Len(bs) - hash_table_offset)

\* BND4.unpack, "Read hash table": seek(hash_table_offset), then
\* read(data_offset - hash_table_offset).
ReadHashTable(bs, hash_table_offset, data_offset) ==
    Slice(bs, hash_table_offset, data_offset - hash_table_offset)

\* BND4.unpack
UnpackV4(b0, bs) ==
    LET b == [b0 EXCEPT !.header_struct = "START"] IN
    IF Len(bs) < 12 THEN [status |-> "struct.error", bnd |-> b]
    ELSE IF ~Utf8Ok(SubSeq(bs, 1, 4)) THEN [status |-> "UnicodeDecodeError", bnd |-> b]
    ELSE IF SubSeq(bs, 1, 4) # TagBND4 THEN [status |-> "BNDError", bnd |-> b]
    ELSE
      LET big == UnpackInt(Slice(bs, 8, 4), FALSE, TRUE) = BigEndianMarker
          b1 == [b EXCEPT !.flag1 = bs[5] # 0, !.flag2 = bs[6] # 0, !.big_endian = big]
      IN IF Len(bs) < HeaderSizeV4 THEN [status |-> "struct.error", bnd |-> b1]
         ELSE IF UnpackInt(Slice(bs, 16, 8), big, TRUE) # HeaderSizeV4
         THEN [status |-> "ValueError", bnd |-> b1]
         ELSE
           LET entry_count == UnpackInt(Slice(bs, 12, 4), big, TRUE)
               entry_header_size == UnpackInt(Slice(bs, 32, 8), big, TRUE)
               data_offset == UnpackInt(Slice(bs, 40, 8), big, TRUE)
               magic == UnpackSByte(bs[50])
               b2 == [b1 EXCEPT !.signature = DecodeText(RStripNul(SubSeq(bs, 25, 32))),
                                !.magic = magic,
                                !.header_struct = "FULL",
                                !.hash_table_type = bs[51],
                                !.hash_table_offset = UnpackInt(Slice(bs, 56, 8), big, TRUE)]
               es == UnpackEntries(bs, HeaderSizeV4, entry_count, "BND4", magic, big)
               added == AddAll(b2, es.entries)
           IN IF entry_header_size # header_size(magic) THEN [status |-> "ValueError", bnd |-> b2]
              ELSE IF es.status # "ok" THEN [status |-> es.status, bnd |-> b2]
              ELSE IF added.status # "ok" THEN added
              ELSE [status |-> "ok",
                    bnd |-> [added.bnd EXCEPT
                        !.most_recent_hash_table =
                            IF b2.hash_table_type = 4
                            THEN ReadHashTable(bs, b2.hash_table_offset, data_offset)
                            ELSE @,
                        !.most_recent_entry_count = Len(added.bnd.entries),
                        !.most_recent_paths =
                            [i \in 1..Len(added.bnd.entries) |-> added.bnd.entries[i].path]]]

\* unpack of the archive's class
Unpack(b, bs) == IF b.version = "BND3" THEN UnpackV3(b, bs) ELSE UnpackV4(b, bs)

\* An unpack that never logs.
NoWarning(b0, bs) == FALSE

\* BND4.unpack logs "Found non-zero hash table offset ..." when it gets past
\* the entry header size check with hash_table_type other than 4 and a non-zero
\* hash_table_offset.
hash_table_offset_warning(b0, bs) ==
    /\ b0.version = "BND4"
    /\ Len(bs) >= HeaderSizeV4
    /\ SubSeq(bs, 1, 4) = TagBND4
    /\ LET big == UnpackInt(Slice(bs, 8, 4), FALSE, TRUE) = BigEndianMarker
       IN /\ UnpackInt(Slice(bs, 16, 8), big, TRUE) = HeaderSizeV4
          /\ UnpackInt(Slice(bs, 32, 8), big, TRUE) = header_size(UnpackSByte(bs[50]))
          /\ bs[51] # 4
          /\ UnpackInt(Slice(bs, 56, 8), big, TRUE) # 0

(***************************************************************************)
(* load_unpacked_dir: the header of a manifest.                            *)
(***************************************************************************)
Manifest(version, magic, big_endian, hash_table_type) ==
    [version |-> version, signature |-> <<48, 55>>, magic |-> magic,
     big_endian |-> big_endian, unknown |-> FALSE, flag1 |-> FALSE, flag2 |-> TRUE,
     hash_table_type |-> hash_table_type]

\* load_manifest_header, add_entries_from_manifest for a manifest that lists no
\* entry, then create_header_structs.
load_unpacked_dir(b, m) ==
    IF m.version # b.version THEN [status |-> "BNDError", bnd |-> b]
    ELSE IF b.version = "BND3"
    THEN [status |-> "ok",
          bnd |-> [b EXCEPT !.signature = m.signature, !.magic = m.magic,
                            !.big_endian = m.big_endian, !.unknown = m.unknown,
                            !.header_struct = "FULL"]]
    ELSE [status |-> "ok",
          bnd |-> [b EXCEPT !.signature = m.signature, !.magic = m.magic,
                            !.big_endian = m.big_endian,
                            !.hash_table_type = m.hash_table_type,
                            !.flag1 = m.flag1, !.flag2 = m.flag2,
                            !.most_recent_hash_table = <<>>,
                            !.most_recent_entry_count = Len(b.entries),
                            !.most_recent_paths = [i \in 1..Len(b.entries) |-> b.entries[i].path],
                            !.header_struct = "FULL"]]

(***************************************************************************)
(* Format detection and the top-level BND function.  A source is raw bytes *)
(* or None.                                                                *)
(***************************************************************************)
BytesSource(bs) == [kind |-> "bytes", id |-> 0, text |-> bs]
NoneSource == [kind |-> "None", id |-> 0, text |-> <<>>]

ClassTag(version) == IF version = "BND3" THEN TagBND3 ELSE TagBND4

\* read_chars_from_buffer(bnd_source, length=4, encoding="utf-8"): the first four
\* bytes, a ValueError when they are not UTF-8 text.
read_version(bs) ==
    LET raw == Slice(bs, 0, 4) IN
    IF \E i \in 1..Len(raw) : raw[i] >= 128
    THEN [status |-> "ValueError", text |-> <<>>]
    ELSE [status |-> "ok", text |-> raw]

\* A detector that accepts every byte source.
DetectAnyBytes(version, source) ==
    IF source.kind = "bytes" THEN "True" ELSE "None"

\* BaseBND.detect of class BND3 or BND4: "True", "False", or "None" when the
\* function ends without a return statement.
detect(version, source) ==
    IF source.kind = "bytes"
    THEN LET r == read_version(source.text)
         IN IF r.status = "ValueError" THEN "False"
            ELSE IF r.text = ClassTag(version) THEN "True" ELSE "False"
    ELSE "None"

\* BND3(bnd_source) / BND4(bnd_source) for a bytes source: the new object
\* unpacks the bytes.
Construct(version, source) ==
    LET r == Unpack(NewBND(version), source.text)
    IN [status |-> r.status, cls |-> version, bnd |-> r.bnd]

\* BND(bnd_source)
BND(source) ==
    IF detect("BND3", source) = "True" THEN Construct("BND3", source)
    ELSE IF detect("BND4", source) = "True" THEN Construct("BND4", source)
    ELSE [status |-> "TypeError", cls |-> "none", bnd |-> NewBND("BND4")]

\* add_entries_from_manifest: the entries of the manifest, collected in a dict
\* keyed by ID, are added in ascending ID order.
add_entries_from_manifest(b, entries) == AddAll(b, SortedById(entries))

(***************************************************************************)
(* Unpacked directories.  A directory on disk is a record: the header and  *)
(* the entry tree of bnd_manifest.json (a sequence of groups, one per      *)
(* entry directory in the order the keys were inserted, each with its      *)
(* entry dicts) and the entry files (name, with the ID of its prefix or    *)
(* NoPrefix, and content).  src keeps the entries of the archive that      *)
(* wrote the directory.  Paths are split as pathlib does on Windows, both  *)
(* separators counting, as for BNDEntry.name.                              *)
(***************************************************************************)
Dot == 46
NoPrefix == -2

NoDisk ==
    [exists |-> FALSE, manifest |-> Manifest("none", -1, FALSE, 0), use_id_prefix |-> FALSE,
     tree |-> <<>>, files |-> <<>>, src |-> <<>>]

\* str(Path(entry.path).parent): "." for a path of one component, else the
\* components before the last joined by backslashes.
ParentDir(path) ==
    LET i == LastSep(path, Len(path)) IN
    IF i = 0 THEN <<Dot>>
    ELSE IF i = 1 THEN <<Backslash>>
    ELSE [k \in 1..(i - 1) |-> IF path[k] = Slash THEN Backslash ELSE path[k]]

\* BaseBND.has_repeated_entry_names
has_repeated_entry_names(entries) ==
    \E i, j \in 1..Len(entries) : i < j /\ EntryName(entries[i]) = EntryName(entries[j])

\* get_json_header without the keys use_id_prefix and dcx_magic.
get_json_header(b) ==
    [version |-> b.version, signature |-> b.signature, magic |-> b.magic,
     big_endian |-> b.big_endian, unknown |-> b.unknown, flag1 |-> b.flag1, flag2 |-> b.flag2,
     hash_table_type |-> b.hash_table_type]

\* entry_tree_dict.setdefault(entry_directory, []).append(entry_dict)
TreeAppend(tree, root, d) ==
    IF \E g \in 1..Len(tree) : tree[g].root = root
    THEN [g \in 1..Len(tree) |->
             IF tree[g].root = root THEN [tree[g] EXCEPT !.dicts = Append(@, d)] ELSE tree[g]]
    ELSE Append(tree, [root |-> root, dicts |-> <<d>>])

\* (directory / entry_file_name).open("wb") and write: the file is created or
\* replaced.
FileWrite(files, prefix, name, data) ==
    IF \E f \in 1..Len(files) : files[f].prefix = prefix /\ files[f].name = name
    THEN [f \in 1..Len(files) |->
             IF files[f].prefix = prefix /\ files[f].name = name
             THEN [files[f] EXCEPT !.data = data] ELSE files[f]]
    ELSE Append(files, [prefix |-> prefix, name |-> name, data |-> data])

\* The loop of write_unpacked_dir over enumerate(self._entries), from index i.
RECURSIVE WriteLoop(_, _, _, _, _)
WriteLoop(entries, i, magic, use_index_prefix, acc) ==
    IF i >= Len(entries) THEN acc
    ELSE LET entry == entries[i + 1]
             entry_dict == [magic |-> entry.magic,
                            id |-> IF has_id(magic) THEN entry.id ELSE i,
                            name |-> EntryName(entry)]
         IN WriteLoop(entries, i + 1, magic, use_index_prefix,
                [tree |-> TreeAppend(acc.tree, ParentDir(entry.path), entry_dict),
                 files |-> FileWrite(acc.files,
                                     IF use_index_prefix THEN entry.id ELSE NoPrefix,
                                     EntryName(entry),
                                     get_data_for_pack(entry).data)])

\* write_unpacked_dir from the mkdir on: the entry files and the manifest.
WriteEntries(b, d) ==
    LET w == WriteLoop(b.entries, 0, b.magic, has_repeated_entry_names(b.entries),
                       [tree |-> <<>>, files |-> d.files])
    IN [status |-> "ok",
        disk |-> [exists |-> TRUE, manifest |-> get_json_header(b),
                  use_id_prefix |-> has_repeated_entry_names(b.entries),
                  tree |-> w.tree, files |-> w.files, src |-> b.entries]]

\* A write_unpacked_dir without the test of the magic.
WriteUnchecked(b, d) == WriteEntries(b, d)

\* BaseBND.write_unpacked_dir to a directory d, for an archive with a file path.
\* Path(None), met by has_repeated_entry_names after the mkdir, is a TypeError.
write_unpacked_dir(b, d) ==
    IF ~has_path(b.magic) THEN [status |-> "TypeError", disk |-> d]
    ELSE IF \E i \in 1..Len(b.entries) : b.entries[i].path = NonePath
    THEN [status |-> "TypeError", disk |-> [d EXCEPT !.exists = TRUE]]
    ELSE WriteEntries(b, d)

\* The entry dicts of a manifest with their roots, in the order of the file.
ManifestDicts(tree) ==
    Flatten([g \in 1..Len(tree) |->
        [k \in 1..Len(tree[g].dicts) |-> [root |-> tree[g].root, dict |-> tree[g].dicts[k]]]])

\* unsorted_entries of add_entries_from_manifest: a dict keyed by ID, a later
\* entry of the same ID replacing the earlier one.
UnsortedEntries(d) ==
    LET ds == ManifestDicts(d.tree)
        prefix(k) == IF d.use_id_prefix THEN ds[k].dict.id ELSE NoPrefix
        file(k) == CHOOSE f \in 1..Len(d.files) :
                       d.files[f].prefix = prefix(k) /\ d.files[f].name = ds[k].dict.name
        kept == {k \in 1..Len(ds) : \A j \in (k + 1)..Len(ds) : ds[j].dict.id # ds[k].dict.id}
        entry(k) == BNDEntry(d.files[file(k)].data, ds[k].dict.id,
                             ds[k].root \o <<Backslash>> \o ds[k].dict.name, ds[k].dict.magic)
    IN [k \in kept |-> entry(k)]

\* The first entry file of the manifest that is not in the directory.
MissingFile(d) ==
    LET ds == ManifestDicts(d.tree) IN
    \E k \in 1..Len(ds) :
        ~\E f \in 1..Len(d.files) :
            /\ d.files[f].prefix = (IF d.use_id_prefix THEN ds[k].dict.id ELSE NoPrefix)
            /\ d.files[f].name = ds[k].dict.name

\* The values of a function on a set of integers, in ascending key order.
RECURSIVE InKeyOrder(_, _)
InKeyOrder(f, keys) ==
    IF keys = {} THEN <<>>
    ELSE LET k == CHOOSE k \in keys : \A j \in keys : k <= j
         IN <<f[k]>> \o InKeyOrder(f, keys \ {k})

\* BaseBND.load_unpacked_dir on a directory d: the header of the manifest,
\* the entries of the manifest read from their files, create_header_structs.
load_directory(b, d) ==
    IF ~d.exists THEN [status |-> "ValueError", bnd |-> b]
    ELSE
      LET h == load_unpacked_dir(b, d.manifest)
          header == [h.bnd EXCEPT !.header_struct = b.header_struct,
                                  !.most_recent_hash_table = b.most_recent_hash_table,
                                  !.most_recent_entry_count = b.most_recent_entry_count,
                                  !.most_recent_paths = b.most_recent_paths]
      IN IF h.status # "ok" THEN h
         ELSE IF MissingFile(d) THEN [status |-> "FileNotFoundError", bnd |-> header]
         ELSE LET unsorted_entries == UnsortedEntries(d)
                  added == add_entries_from_manifest(
                               header, InKeyOrder(unsorted_entries, DOMAIN unsorted_entries))
              IN IF added.status # "ok" THEN added
                 ELSE load_unpacked_dir(added.bnd, d.manifest)

(***************************************************************************)
(* The state machine: one archive object driven by its caller.             *)
(*   bnd     the archive                                                   *)
(*   packed  the result of the pack call, with the entries it packed, until *)
(*           the archive is changed again                                  *)
(*   last    the last call: its name, arguments and the exception raised   *)
(***************************************************************************)
NoEntry == BNDEntry(<<>>, NoneId, NonePath, 0)
NoKey == [kind |-> "none", id |-> 0, text |-> <<>>]
IntKey(n) == [kind |-> "int", id |-> n, text |-> <<>>]
StrKey(s) == [kind |-> "str", id |-> 0, text |-> s]

Call(op, status) ==
    [op |-> op, status |-> status, warned |-> FALSE, entry |-> NoEntry, key |-> NoKey, index |-> 0]

NoPack == [status |-> "none", bytes |-> <<>>, table |-> <<>>, src |-> <<>>]

NoHash ==
    [op |-> "none", hash |-> 0, hash2 |-> 0, groups |-> 0, lists |-> <<>>, table |-> <<>>,
     src |-> <<>>]

HashIdle ==
    /\ h_in = <<>>
    /\ h_in2 = <<>>
    /\ h_count = 0
    /\ h_out = NoHash

InitBND(versions) ==
    /\ bnd \in {NewBND(v) : v \in versions}
    /\ packed = NoPack
    /\ last = Call("init", "ok")
    /\ HashIdle
    /\ disk = NoDisk

hvars == <<h_in, h_in2, h_count, h_out, disk>>

\* BND3(directory) / BND4(directory): the constructor loads the manifest.
LoadUnpackedDir(m) ==
    /\ last.op = "init"
    /\ LET r == load_unpacked_dir(bnd, m) IN
       /\ bnd' = r.bnd
       /\ last' = Call("load_unpacked_dir", r.status)
    /\ UNCHANGED <<packed, hvars>>

AddEntryUpTo(entry, max) ==
    /\ Len(bnd.entries) < max
    /\ LET r == add_entry(bnd, entry) IN
       /\ bnd' = r.bnd
       /\ last' = [Call("add_entry", r.status) EXCEPT !.warned = r.warned, !.entry = entry]
    /\ packed' = NoPack
    /\ UNCHANGED hvars

RemoveEntry(key) ==
    /\ LET r == remove_entry(bnd, key) IN
       /\ bnd' = r.bnd
       /\ last' = [Call("remove_entry", r.status) EXCEPT !.key = key]
    /\ packed' = NoPack
    /\ UNCHANGED hvars

ClearEntries ==
    /\ bnd' = clear_entries(bnd)
    /\ last' = Call("clear_entries", "ok")
    /\ packed' = NoPack
    /\ UNCHANGED hvars

AddEntry(entry) == AddEntryUpTo(entry, MaxEntries)

GetItem(key) ==
    /\ LET r == getitem(bnd, key) IN
       last' = [Call("getitem", r.status) EXCEPT !.key = key, !.index = r.index]
    /\ UNCHANGED <<bnd, packed, hvars>>

\* bnd.entries[i].path = path: the caller edits an entry in place.
SetPath(i, path) ==
    /\ i \in 1..Len(bnd.entries)
    /\ bnd.entries[i].path # path
    /\ bnd' = [bnd EXCEPT !.entries[i].path = path]
    /\ last' = [Call("set_path", "ok") EXCEPT !.index = i]
    /\ packed' = NoPack
    /\ UNCHANGED hvars

DoPack ==
    /\ LET r == Pack(bnd) IN
       /\ bnd' = r.bnd
       /\ packed' = [status |-> r.status, bytes |-> r.bytes, table |-> r.table,
                     src |-> bnd.entries]
       /\ last' = Call("pack", r.status)
    /\ UNCHANGED hvars

\* BND3(data) / BND4(data) on the bytes of the last pack: a new archive object
\* of the same class unpacks them.
Reopen ==
    /\ packed.status = "ok"
    /\ LET r == Unpack(NewBND(bnd.version), packed.bytes) IN
       /\ bnd' = r.bnd
       /\ last' = Call("unpack", r.status)
    /\ UNCHANGED <<packed, hvars>>

(***************************************************************************)
(* Inputs of the calls.                                                    *)
(***************************************************************************)
PathAB == <<CharA, Backslash, CharB>>
PathABFwd == <<CharA, Slash, CharB>>
PathBA == <<CharB, Backslash, CharA>>
PathB == <<CharB>>
PathKana == <<CharA, Backslash, Kana>>

FlagMagics == {id + path + unc + hint : id \in {0, 64}, path \in {0, 32}, unc \in {0, 4}, hint \in {0, 1}}

Versions == {"BND3", "BND4"}

RTManifests ==
    {Manifest(v, m, big, t) : v \in Versions, m \in FlagMagics, big \in BOOLEAN, t \in {0, 4}}

RTEntries ==
    {BNDEntry(<<1, 2>>, 0, PathAB, 64),
     BNDEntry(<<3>>, 1, PathKana, 192),
     BNDEntry(<<>>, 2, PathB, 64)}

(***************************************************************************)
(* SpecRT: archives of every flag combination are built, packed and        *)
(* unpacked again.                                                         *)
(***************************************************************************)
InitRT == InitBND(Versions)

NextRT ==
    \/ \E m \in RTManifests : LoadUnpackedDir(m)
    \/ \E e \in RTEntries : AddEntry(e)
    \/ DoPack
    \/ Reopen

SpecRT == InitRT /\ [][NextRT]_vars

\* bnd.build_hash_table() called by the caller: the buckets it sorted (hash_lists)
\* for the entries of the archive.
BuildHashTable ==
    /\ bnd.version = "BND4"
    /\ h_out.op = "none"
    /\ \A i \in 1..Len(bnd.entries) : bnd.entries[i].path # NonePath
    /\ h_out' = [NoHash EXCEPT !.op = "build_hash_table",
                               !.groups = GroupCount(Len(bnd.entries)),
                               !.lists = HashLists(bnd.entries),
                               !.table = build_hash_table(bnd.entries),
                               !.src = bnd.entries]
    /\ UNCHANGED <<bnd, packed, last, h_in, h_in2, h_count, disk>>

(***************************************************************************)
(* SpecColl: the entry collection under add_entry, remove_entry,           *)
(* clear_entries and archive[key].                                         *)
(***************************************************************************)
CollEntries ==
    {BNDEntry(<<1>>, 0, PathAB, 64),
     BNDEntry(<<1>>, 0, PathB, 64),
     BNDEntry(<<2>>, 0, PathBA, 64),
     BNDEntry(<<1>>, 1, PathAB, 64),
     BNDEntry(<<1>>, 1, PathABFwd, 64)}

CollKeys ==
    {IntKey(n) : n \in 0..2} \cup {StrKey(t) : t \in {PathAB, PathB, PathBA, <<CharA>>}}

InitColl == InitBND(Versions)

NextColl ==
    \/ \E e \in CollEntries : AddEntry(e)
    \/ \E k \in CollKeys : RemoveEntry(k)
    \/ ClearEntries
    \/ \E k \in CollKeys : GetItem(k)

SpecColl == InitColl /\ [][NextColl]_vars

(***************************************************************************)
(* Spec: a BND4 archive is loaded, edited, packed and reopened; the hash   *)
(* table and its cache.                                                    *)
(***************************************************************************)
V4Manifests == {Manifest("BND4", 96, FALSE, t) : t \in {0, 4}}

V4Entries ==
    {BNDEntry(<<1>>, 0, PathAB, 64),
     BNDEntry(<<1>>, 1, PathB, 64)}

V4Paths == {PathAB, PathB}

Init == InitBND({"BND4"})

Next ==
    \/ \E m \in V4Manifests : LoadUnpackedDir(m)
    \/ \E e \in V4Entries : AddEntryUpTo(e, MaxV4Entries)
    \/ \E i \in 1..MaxV4Entries, t \in V4Paths : SetPath(i, t)
    \/ DoPack
    \/ Reopen

Spec == Init /\ [][Next]_vars

(***************************************************************************)
(* SpecTable: build_hash_table on archives of entries whose paths hash to  *)
(* equal and to different values.                                          *)
(***************************************************************************)
TableEntries ==
    {BNDEntry(<<1>>, 0, PathAB, 64),
     BNDEntry(<<1>>, 1, PathABFwd, 64),
     BNDEntry(<<1>>, 2, PathBA, 64),
     BNDEntry(<<1>>, 3, PathB, 64),
     BNDEntry(<<1>>, 4, PathKana, 64),
     BNDEntry(<<1>>, 5, <<CharA>>, 64)}

\* The entries of a manifest large enough for three hash groups, listed in
\* descending ID order: three paths of equal hash and one-character paths.
ManifestSize == 21

ManifestPath(i) ==
    IF i = 1 THEN PathAB
    ELSE IF i = 2 THEN PathABFwd
    ELSE IF i = 3 THEN PathBA
    ELSE <<CharA + i>>

ManifestEntries ==
    [i \in 1..ManifestSize |-> BNDEntry(<<1>>, ManifestSize + 1 - i, ManifestPath(i), 64)]

\* add_entries_from_manifest on an empty archive.
AddEntriesFromManifest(entries) ==
    /\ h_out.op = "none"
    /\ bnd.entries = <<>>
    /\ LET r == add_entries_from_manifest(bnd, entries)
       IN /\ bnd' = r.bnd
          /\ last' = Call("add_entries_from_manifest", r.status)
    /\ packed' = NoPack
    /\ UNCHANGED hvars

InitTable == InitBND({"BND4"})

NextTable ==
    \/ \E e \in TableEntries : h_out.op = "none" /\ AddEntry(e)
    \/ AddEntriesFromManifest(ManifestEntries)
    \/ BuildHashTable

SpecTable == InitTable /\ [][NextTable]_vars

(***************************************************************************)
(* SpecHash: path_hash and the group count as functions of their inputs.   *)
(***************************************************************************)
Alphabet == {Slash, Backslash, CharA, CharB, Kana}

\* The paths that differ from s only in the separator used at some positions,
\* or in one leading separator.
SameUpToSeparators(s, t) ==
    /\ Len(s) = Len(t)
    /\ \A i \in 1..Len(s) : s[i] = t[i] \/ (IsSep(s[i]) /\ IsSep(t[i]))

RECURSIVE Strings(_)
Strings(n) ==
    IF n = 0 THEN {<<>>}
    ELSE Strings(n - 1) \cup {Append(t, c) : t \in {u \in Strings(n - 1) : Len(u) = n - 1}, c \in Alphabet}

InitHash ==
    /\ bnd = NewBND("BND4")
    /\ packed = NoPack
    /\ last = Call("init", "ok")
    /\ h_in2 = <<>>
    /\ h_out = NoHash
    /\ disk = NoDisk
    /\ \/ h_in \in Strings(MaxPathLen) /\ h_count = 0
       \/ h_in = <<>> /\ h_count \in 0..MaxCount

\* BND4.path_hash(h_in)
PathHash ==
    /\ h_out.op = "none"
    /\ h_out' = [NoHash EXCEPT !.op = "path_hash", !.hash = path_hash(h_in)]
    /\ UNCHANGED <<bnd, packed, last, h_in, h_in2, h_count, disk>>

\* BND4.path_hash(h_in) and BND4.path_hash(t) for a second path t.
PathHashPair(t) ==
    /\ h_out.op = "none"
    /\ h_in2' = t
    /\ h_out' = [NoHash EXCEPT !.op = "path_hash_pair",
                               !.hash = path_hash(h_in), !.hash2 = path_hash(t)]
    /\ UNCHANGED <<bnd, packed, last, h_in, h_count, disk>>

\* The group count build_hash_table chooses for h_count entries.
ChooseGroupCount ==
    /\ h_out.op = "none"
    /\ h_out' = [NoHash EXCEPT !.op = "group_count", !.groups = GroupCount(h_count)]
    /\ UNCHANGED <<bnd, packed, last, h_in, h_in2, h_count, disk>>

\* BND4.is_prime(h_count): hash is 1 for True, 0 for False.
IsPrime ==
    /\ h_out.op = "none"
    /\ h_out' = [NoHash EXCEPT !.op = "is_prime", !.hash = IF is_prime(h_count) THEN 1 ELSE 0]
    /\ UNCHANGED <<bnd, packed, last, h_in, h_in2, h_count, disk>>

NextHash ==
    \/ PathHash
    \/ \E t \in Strings(MaxPathLen + 1) :
          /\ \/ SameUpToSeparators(h_in, t)
             \/ \E c \in {Slash, Backslash} : SameUpToSeparators(<<c>> \o h_in, t)
          /\ PathHashPair(t)
    \/ ChooseGroupCount
    \/ IsPrime

SpecHash == InitHash /\ [][NextHash]_vars

(***************************************************************************)
(* SpecOpen: archives are built and packed, and the packed bytes, other    *)
(* byte strings and None are given to the detectors and to BND.            *)
(***************************************************************************)
\* BND3.detect(source) / BND4.detect(source)
DetectSource(version, source) ==
    /\ last' = [Call("detect", detect(version, source))
                   EXCEPT !.key = source, !.index = IF version = "BND3" THEN 3 ELSE 4]
    /\ UNCHANGED <<bnd, packed, hvars>>

\* bnd = BND(source): the archive returned replaces the one at hand; an
\* exception leaves it.
OpenSource(source) ==
    /\ \E r \in {BND(source)} :
       /\ bnd' = IF r.status = "ok" THEN r.bnd ELSE bnd
       /\ last' = [Call("BND", r.status)
                      EXCEPT !.key = source,
                             !.index = IF r.cls = "BND3" THEN 3 ELSE IF r.cls = "BND4" THEN 4 ELSE 0]
    /\ UNCHANGED <<packed, hvars>>

OpenManifests == {Manifest(v, 96, FALSE, 0) : v \in Versions}

OpenEntries ==
    {BNDEntry(<<1, 2>>, 0, PathAB, 64),
     BNDEntry(<<3>>, 1, PathB, 64)}

\* Byte strings that are no output of pack: empty, shorter than a tag, a bare
\* tag, an unknown tag, bytes that are no text, and empty archives.
OtherSources ==
    {BytesSource(<<>>),
     BytesSource(<<66, 78, 68>>),
     BytesSource(TagBND3),
     BytesSource(TagBND4),
     BytesSource(<<66, 78, 68, 53>> \o Zeros(60)),
     BytesSource(<<255, 78, 68, 51>> \o Zeros(28)),
     BytesSource(<<32>> \o TagBND4 \o Zeros(59)),
     BytesSource(TagBND3 \o Zeros(28)),
     BytesSource(TagBND4 \o Zeros(60))}

InitOpen == InitBND(Versions)

NextOpen ==
    \/ \E m \in OpenManifests : LoadUnpackedDir(m)
    \/ \E e \in OpenEntries : AddEntry(e)
    \/ DoPack
    \/ \E v \in Versions, src \in OtherSources \cup {NoneSource} : DetectSource(v, src)
    \/ \E v \in Versions : packed.status = "ok" /\ DetectSource(v, BytesSource(packed.bytes))
    \/ \E src \in OtherSources \cup {NoneSource} : OpenSource(src)
    \/ packed.status = "ok" /\ OpenSource(BytesSource(packed.bytes))

SpecOpen == InitOpen /\ [][NextOpen]_vars

(***************************************************************************)
(* SpecPack: archives of both classes, with and without ID, path and       *)
(* uncompressed-size fields, in both byte orders, are filled in any order  *)
(* (a repeated ID and a compressed entry included) and packed.             *)
(***************************************************************************)
PackMagics == {100, 64, 32, 0}

PackManifests ==
    {Manifest(v, m, big, t) : v \in Versions, m \in PackMagics, big \in BOOLEAN, t \in {0, 4}}

PackEntries ==
    {BNDEntry(<<1, 2>>, 1, PathAB, 64),
     BNDEntry(<<3>>, 0, PathB, 192),
     BNDEntry(<<>>, 1, PathB, 64),
     BNDEntry(<<4>>, 2, PathKana, 64)}

InitPack == InitBND(Versions)

NextPack ==
    \/ \E m \in PackManifests : LoadUnpackedDir(m)
    \/ \E e \in PackEntries : AddEntry(e)
    \/ DoPack

SpecPack == InitPack /\ [][NextPack]_vars

(***************************************************************************)
(* SpecUnpack: archives are built and packed; the packed bytes, copies of  *)
(* them with another tag, another declared entry header size or a stray    *)
(* hash table offset, and other byte strings are unpacked by the object at *)
(* hand or by a new object of its class; a run ends with the unpack.       *)
(***************************************************************************)
\* The bytes bs with the bytes of patch written at offset off.
PatchAt(bs, off, patch) ==
    [i \in 1..Len(bs) |->
        IF i > off /\ i <= off + Len(patch) THEN patch[i - off] ELSE bs[i]]

UnknownTag == <<66, 78, 68, 53>>

StrayOffset == 7

\* Files derived from the bytes of a packed archive.
FileVariants(bs, big) ==
    {bs,
     PatchAt(bs, 0, TagBND3),
     PatchAt(bs, 0, TagBND4),
     PatchAt(bs, 0, UnknownTag)}
    \cup (IF Len(bs) >= HeaderSizeV4 /\ SubSeq(bs, 1, 4) = TagBND4
          THEN {PatchAt(bs, 32, PackInt(UnpackInt(Slice(bs, 32, 8), big, TRUE) + 4, 8, big)),
                PatchAt(bs, 32, Zeros(8)),
                PatchAt(bs, 56, PackInt(StrayOffset, 8, big))}
          ELSE {})

\* bnd.unpack(io.BytesIO(bs)) on the object at hand, or BND3(bs) / BND4(bs), a
\* new object of its class (index 1).
UnpackFile(fresh, bs) ==
    /\ \E r \in {Unpack(IF fresh THEN NewBND(bnd.version) ELSE bnd, bs)} :
       /\ bnd' = r.bnd
       /\ last' = [Call("unpack", r.status)
                      EXCEPT !.key = BytesSource(bs),
                             !.index = IF fresh THEN 1 ELSE 0,
                             !.warned = hash_table_offset_warning(bnd, bs)]
    /\ UNCHANGED <<packed, hvars>>

UnpackManifests ==
    {Manifest(v, m, FALSE, t) : v \in Versions, m \in {100, 32}, t \in {0, 4}}

FileEntries ==
    {BNDEntry(<<1, 2>>, 0, PathAB, 64),
     BNDEntry(<<3>>, 1, PathB, 192)}

InitUnpack == InitBND(Versions)

NextUnpack ==
    \/ \E m \in UnpackManifests : LoadUnpackedDir(m)
    \/ \E e \in FileEntries : last.op # "unpack" /\ AddEntry(e)
    \/ last.op # "unpack" /\ DoPack
    \/ \E fresh \in BOOLEAN :
          /\ last.op = "pack"
          /\ packed.status = "ok"
          /\ \E bs \in FileVariants(packed.bytes, bnd.big_endian) : UnpackFile(fresh, bs)
    \/ \E fresh \in BOOLEAN, src \in OtherSources :
          /\ last.op \in {"pack", "add_entry"}
          /\ UnpackFile(fresh, src.text)

SpecUnpack == InitUnpack /\ [][NextUnpack]_vars

(***************************************************************************)
(* SpecDir: archives with and without path and ID fields are filled,       *)
(* written to an unpacked directory and loaded back from it by a new       *)
(* object of the same class.                                               *)
(***************************************************************************)
\* bnd.write_unpacked_dir(directory)
WriteUnpackedDir ==
    /\ \E r \in {write_unpacked_dir(bnd, disk)} :
       /\ disk' = r.disk
       /\ last' = Call("write_unpacked_dir", r.status)
    /\ UNCHANGED <<bnd, packed, h_in, h_in2, h_count, h_out>>

\* BND3(directory) / BND4(directory): a new object of the class loads the
\* directory.
LoadDirectory ==
    /\ \E r \in {load_directory(NewBND(bnd.version), disk)} :
       /\ bnd' = r.bnd
       /\ last' = Call("load_directory", r.status)
    /\ packed' = NoPack
    /\ UNCHANGED <<h_in, h_in2, h_count, h_out, disk>>

DirManifests == {Manifest(v, m, FALSE, 0) : v \in Versions, m \in {100, 64, 32}}

DirEntries ==
    {BNDEntry(<<1, 2>>, 0, PathAB, 64),
     BNDEntry(<<3>>, 1, PathB, 64),
     BNDEntry(<<4>>, 2, PathKana, 192),
     BNDEntry(<<>>, 3, PathABFwd, 64)}

InitDir == InitBND(Versions)

NextDir ==
    \/ \E m \in DirManifests : LoadUnpackedDir(m)
    \/ \E e \in DirEntries : last.op # "load_directory" /\ AddEntry(e)
    \/ last.op # "load_directory" /\ WriteUnpackedDir
    \/ last.op # "load_directory" /\ LoadDirectory

SpecDir == InitDir /\ [][NextDir]_vars

(***************************************************************************)
(* SpecEdit: a BND4 archive with hash_table_type 4 unpacked from a file    *)
(* whose hash table is the table of its entries, then edited and packed.   *)
(***************************************************************************)
\* The archives the files are packed from: new objects given the manifest
\* header and entries, which have no cached hash table.
EditSources ==
    {[load_unpacked_dir(NewBND("BND4"), Manifest("BND4", 96, FALSE, 4)).bnd
          EXCEPT !.entries = es] :
        es \in {s \in UNION {[1..n -> V4Entries] : n \in 0..MaxV4Entries} :
                  \A i, j \in 1..Len(s) : i # j => s[i] # s[j]}}

\* The files: what pack returns for the sources.
EditFiles == {Pack(b).bytes : b \in EditSources}

EditKeys == {IntKey(0), IntKey(1), StrKey(PathB), StrKey(<<CharB>> \o <<CharA>>)}

\* BND4(file)
InitEdit ==
    /\ bnd \in {Unpack(NewBND("BND4"), bs).bnd : bs \in EditFiles}
    /\ packed = NoPack
    /\ last = Call("unpack", "ok")
    /\ HashIdle
    /\ disk = NoDisk

NextEdit ==
    \/ \E e \in V4Entries : AddEntryUpTo(e, MaxV4Entries)
    \/ \E k \in EditKeys : RemoveEntry(k)
    \/ \E i \in 1..MaxV4Entries, t \in V4Paths : SetPath(i, t)
    \/ DoPack

SpecEdit == InitEdit /\ [][NextEdit]_vars

(***************************************************************************)
(* Claims.                                                                 *)
(***************************************************************************)
UniqueIds(entries) ==
    \A i, j \in 1..Len(entries) : i # j => entries[i].id # entries[j].id

CountOf(entries, e) == Cardinality({i \in 1..Len(entries) : EntryEq(entries[i], e)})

SameMultiset(a, b) ==
    /\ Len(a) = Len(b)
    /\ \A i \in 1..Len(a) : CountOf(a, a[i]) = CountOf(b, a[i])

\* The hash table inside the bytes of a BND4 file: from the header's
\* hash_table_offset up to its data_offset.
EmittedHashTable(bs, big) ==
    LET hash_table_offset == UnpackInt(Slice(bs, 56, 8), big, TRUE)
        data_offset == UnpackInt(Slice(bs, 40, 8), big, TRUE)
    IN Slice(bs, hash_table_offset, data_offset - hash_table_offset)

\* A step that is a successful pack of a BND4 archive with hash_table_type 4.
PackStepV4 ==
    /\ last'.op = "pack"
    /\ last'.status = "ok"
    /\ bnd.version = "BND4"
    /\ bnd.hash_table_type = 4

\* The entry count or the path at some position differs from the snapshot of
\* the last pack or unpack.
ChangedSinceSnapshot(b) ==
    \/ Len(b.entries) # b.most_recent_entry_count
    \/ \E i \in 1..Len(b.entries) : b.entries[i].path # b.most_recent_paths[i]

\* C1: unpacking the bytes pack returned for an archive of entries with unique
\* IDs succeeds and yields a multiset of entries equal to the packed one (id,
\* path, magic, data), for V3 and V4, every flag combination of the magic and
\* both byte orders.
C1_RoundTrip ==
    (last.op = "unpack" /\ UniqueIds(packed.src))
        => (last.status = "ok" /\ SameMultiset(bnd.entries, packed.src))

\* C2: two consecutive pack calls of a BND4 archive with hash_table_type 4,
\* with no change of the entries between them, emit the same hash-table bytes.
C2_ConsecutivePacksSameTable ==
    [][(PackStepV4 /\ last.op = "pack" /\ last.status = "ok")
          => EmittedHashTable(packed'.bytes, bnd.big_endian)
                 = EmittedHashTable(packed.bytes, bnd.big_endian)]_vars

\* C3 as stated: pack rebuilds the hash table when the entry count or a path
\* differs from the snapshot, and emits the cached bytes when neither changed.
C3_RebuildIffChanged ==
    [][PackStepV4 =>
          EmittedHashTable(packed'.bytes, bnd.big_endian) =
              IF ChangedSinceSnapshot(bnd) THEN build_hash_table(bnd.entries)
              ELSE bnd.most_recent_hash_table]_vars

\* C3 amended: pack rebuilds the hash table when the entry count or a path
\* differs from the snapshot or when no hash table is cached, and the table it
\* emits is then the one build_hash_table produces for the current entries;
\* when neither changed and a table is cached, it emits the cached bytes.
C3_RebuildOrReuse ==
    [][PackStepV4 =>
          EmittedHashTable(packed'.bytes, bnd.big_endian) =
              IF ChangedSinceSnapshot(bnd) \/ bnd.most_recent_hash_table = <<>>
              THEN build_hash_table(bnd.entries)
              ELSE bnd.most_recent_hash_table]_vars

\* A pack that reused a cached table that is not the table of the entries.
C3_Witness ==
    /\ last.op = "pack"
    /\ last.status = "ok"
    /\ bnd.hash_table_type = 4
    /\ bnd.most_recent_hash_table # <<>>
    /\ EmittedHashTable(packed.bytes, bnd.big_endian) = bnd.most_recent_hash_table
    /\ EmittedHashTable(packed.bytes, bnd.big_endian) # build_hash_table(bnd.entries)

\* A prime number, by definition.
IsPrimeNumber(p) == p >= 2 /\ \A d \in 2..(p - 1) : p % d # 0

\* C4: the group count build_hash_table chooses for n entries is the smallest
\* prime greater than or equal to the quotient n / 7 (the integer quotient, where
\* the search starts); for n < 7 the search starts at 0 and the count is 2.
C4_GroupCountSmallestPrime ==
    h_out.op = "group_count" =>
        /\ IsPrimeNumber(h_out.groups)
        /\ h_out.groups >= h_count \div 7
        /\ \A p \in (h_count \div 7)..(h_out.groups - 1) : ~IsPrimeNumber(p)
        /\ (h_count < 7 => h_out.groups = 2)

\* 28 entries: the search starts at the composite 4 and stops at 5.
C4_Witness ==
    /\ h_out.op = "group_count"
    /\ h_count = 28
    /\ h_out.groups = 5

\* The normalized path of the claim: backslashes replaced by forward slashes,
\* one forward slash prepended when the string does not start with one.
NormalizedPath(s) ==
    LET r == [i \in 1..Len(s) |-> IF s[i] = 92 THEN 47 ELSE s[i]] IN
    IF r # <<>> /\ Head(r) = 47 THEN r ELSE <<47>> \o r

\* C5: path_hash returns the sum over the characters of the normalized string
\* of i * 37 + ord(char_i), i the 0-based position, without wraparound.
C5_PathHashFormula ==
    h_out.op = "path_hash" =>
        LET n == NormalizedPath(h_in) IN
        h_out.hash = SumSeq([i \in 1..Len(n) |-> (i - 1) * 37 + n[i]])

\* path_hash("a\\b") = 47 + (37 + 97) + (74 + 47) + (111 + 98)
C5_Witness ==
    /\ h_out.op = "path_hash"
    /\ h_in = <<97, 92, 98>>
    /\ h_out.hash = 511

\* C6: two paths that differ only in the separator used, or in one leading
\* separator that a path without a leading separator lacks, have the same hash.
C6_SeparatorInsensitive ==
    (/\ h_out.op = "path_hash_pair"
     /\ \/ SameUpToSeparators(h_in, h_in2)
        \/ /\ ~(h_in # <<>> /\ IsSep(Head(h_in)))
           /\ \E c \in {Slash, Backslash} : SameUpToSeparators(<<c>> \o h_in, h_in2))
        => h_out.hash = h_out.hash2

\* path_hash("a\\b") = path_hash("/a/b")
C6_Witness ==
    /\ h_out.op = "path_hash_pair"
    /\ h_in = <<97, 92, 98>>
    /\ h_in2 = <<47, 97, 47, 98>>
    /\ h_out.hash = h_out.hash2

\* C7: in the table of build_hash_table every entry has one record, in bucket
\* path_hash(path) % group_count, and inside a bucket the (hash, entry index)
\* records ascend by hash, records of equal hash in the order of the entries.
C7_BucketsSorted ==
    h_out.op = "build_hash_table" =>
        LET es == h_out.src
            ls == h_out.lists
        IN /\ Len(ls) = h_out.groups
           /\ SumSeq([g \in 1..Len(ls) |-> Len(ls[g])]) = Len(es)
           /\ \A i \in 1..Len(es) :
                 LET h == path_hash(es[i].path)
                     g == (h % h_out.groups) + 1
                 IN \E k \in 1..Len(ls[g]) : ls[g][k] = <<h, i - 1>>
           /\ \A g \in 1..Len(ls) : \A k \in 1..(Len(ls[g]) - 1) :
                 \/ ls[g][k][1] < ls[g][k + 1][1]
                 \/ ls[g][k][1] = ls[g][k + 1][1] /\ ls[g][k][2] < ls[g][k + 1][2]

\* A table of three groups with a bucket where the sort moved a later entry in
\* front of an earlier one and where two records have the same hash.
C7_Witness ==
    /\ h_out.op = "build_hash_table"
    /\ h_out.groups = 3
    /\ \E g \in 1..Len(h_out.lists) :
          /\ \E k \in 1..(Len(h_out.lists[g]) - 1) :
                h_out.lists[g][k][2] > h_out.lists[g][k + 1][2]
          /\ \E k \in 1..(Len(h_out.lists[g]) - 1) :
                h_out.lists[g][k][1] = h_out.lists[g][k + 1][1]

IdIn(entries, e) == \E i \in 1..Len(entries) : entries[i].id = e.id

EqIn(entries, e) == \E i \in 1..Len(entries) : EntryEq(entries[i], e)

\* C8: add_entry of an entry whose ID is already in the archive and which is
\* equal to no entry of the archive appends it and raises nothing.
C8_DuplicateIdAccepted ==
    [][(/\ last'.op = "add_entry"
        /\ IdIn(bnd.entries, last'.entry)
        /\ ~EqIn(bnd.entries, last'.entry))
          => (last'.status = "ok" /\ bnd'.entries = Append(bnd.entries, last'.entry))]_vars

\* C9: add_entry of an entry equal to one of the archive raises and leaves the
\* collection unchanged, and no two entries of the collection are ever equal.
C9_NoEqualEntries ==
    /\ [](\A i, j \in 1..Len(bnd.entries) :
              i # j => ~EntryEq(bnd.entries[i], bnd.entries[j]))
    /\ [][(last'.op = "add_entry" /\ EqIn(bnd.entries, last'.entry))
             => (last'.status = "BNDError" /\ bnd'.entries = bnd.entries)]_vars

\* add_entry refused an entry for being equal to one of the archive.
C9_Witness ==
    /\ last.op = "add_entry"
    /\ last.status = "BNDError"
    /\ EqIn(bnd.entries, last.entry)
    /\ UniqueIds(bnd.entries)

RepeatedPath(entries) ==
    \E i, j \in 1..Len(entries) : i # j /\ entries[i].path = entries[j].path

RepeatedName(entries) ==
    \E i, j \in 1..Len(entries) : i # j /\ EntryName(entries[i]) = EntryName(entries[j])

IsPathOf(entries, t) == \E i \in 1..Len(entries) : entries[i].path = t

\* C10: add_entry never refuses an entry for its path or basename (it refuses
\* only an entry equal to one of the archive, or when two entries of the archive
\* share an ID); archive[key] and remove_entry(key) with a string key raise when
\* the path lookup, or the basename lookup they fall back to, meets a repeated
\* path or basename, and leave the collection unchanged.
C10_DuplicatePathRaisesAtLookup ==
    [][/\ (last'.op = "add_entry" /\ last'.status # "ok")
            => (EqIn(bnd.entries, last'.entry) \/ ~UniqueIds(bnd.entries))
       /\ (/\ last'.op \in {"getitem", "remove_entry"}
           /\ last'.key.kind = "str"
           /\ \/ RepeatedPath(bnd.entries)
              \/ ~IsPathOf(bnd.entries, last'.key.text) /\ RepeatedName(bnd.entries))
            => (last'.status = "ValueError" /\ bnd'.entries = bnd.entries)]_vars

\* remove_entry by a basename raised on a repeated basename, in an archive whose
\* paths are all different: the entries were accepted by add_entry.
C10_Witness ==
    /\ last.op = "remove_entry"
    /\ last.key.kind = "str"
    /\ last.status = "ValueError"
    /\ ~RepeatedPath(bnd.entries)
    /\ RepeatedName(bnd.entries)

\* C11: with two entries of the archive sharing an ID, a lookup by ID
\* (archive[id], remove_entry(id), both through entries_by_id) raises a
\* ValueError and leaves the entry collection unchanged.
C11_DuplicateIdLookupValueError ==
    [][(/\ last'.op \in {"getitem", "remove_entry"}
        /\ last'.key.kind = "int"
        /\ ~UniqueIds(bnd.entries))
          => (last'.status = "ValueError" /\ bnd'.entries = bnd.entries)]_vars

HasTag(bs, tag) == Len(bs) >= 4 /\ SubSeq(bs, 1, 4) = tag

\* C12: for a byte source the V3 detector answers true exactly when the first
\* four bytes are "BND3" and the V4 detector exactly when they are "BND4"; BND
\* constructs a BND3 for a source the V3 detector accepts, else a BND4 for one
\* the V4 detector accepts, and raises TypeError when neither accepts it.
C12_DetectByTag ==
    /\ (last.op = "detect" /\ last.key.kind = "bytes") =>
          /\ last.status \in {"True", "False"}
          /\ last.status = "True" <=>
                HasTag(last.key.text, IF last.index = 3 THEN <<66, 78, 68, 51>>
                                      ELSE <<66, 78, 68, 52>>)
    /\ (last.op = "BND" /\ last.key.kind = "bytes") =>
          IF HasTag(last.key.text, <<66, 78, 68, 51>>)
          THEN last.index = 3 /\ last.status # "TypeError"
                 /\ (last.status = "ok" => bnd.version = "BND3")
          ELSE IF HasTag(last.key.text, <<66, 78, 68, 52>>)
          THEN last.index = 4 /\ last.status # "TypeError"
                 /\ (last.status = "ok" => bnd.version = "BND4")
          ELSE last.status = "TypeError"

\* BND returned a BND4 archive with an entry from the bytes a BND4 packed.
C12_Witness ==
    /\ last.op = "BND"
    /\ last.key.kind = "bytes"
    /\ last.status = "ok"
    /\ last.index = 4
    /\ bnd.version = "BND4"
    /\ Len(bnd.entries) >= 1

\* C13: BND(None) returns an empty BND4 archive.
C13_OpenNoneIsEmptyV4 ==
    (last.op = "BND" /\ last.key.kind = "None") =>
        (last.status = "ok" /\ bnd.version = "BND4" /\ bnd.entries = <<>>)

\* C14: when unpack raises, the entry collection of the archive holds no entry
\* read by that call.
C14_NoPartialUnpack ==
    (last.op = "unpack" /\ last.status # "ok") => bnd.entries = <<>>

\* C15: packing an archive obtained by unpacking the output of pack, nothing
\* modified in between, reproduces that output byte for byte.
C15_RepackReproduces ==
    [][(last.op = "unpack" /\ last'.op = "pack")
          => (/\ last.status = "ok"
              /\ last'.status = "ok"
              /\ packed'.bytes = packed.bytes)]_vars

\* The archive magic written in the bytes of the last pack.
PackedMagic ==
    UnpackSByte(packed.bytes[IF bnd.version = "BND3" THEN 13 ELSE 50])

\* C16: for an archive whose magic has the ID field and no path field, holding
\* uncompressed entries of distinct IDs added in any order, pack then unpack
\* returns the entries in ascending ID order, each with the data of the original
\* entry of that ID.
C16_IdOrderAfterRoundTrip ==
    (/\ last.op = "unpack"
     /\ has_id(PackedMagic)
     /\ ~has_path(PackedMagic)
     /\ \A i \in 1..Len(packed.src) : ~is_entry_compressed(packed.src[i].magic)
     /\ UniqueIds(packed.src))
        => /\ last.status = "ok"
           /\ Len(bnd.entries) = Len(packed.src)
           /\ \A i, j \in 1..Len(bnd.entries) :
                 i < j => bnd.entries[i].id < bnd.entries[j].id
           /\ \A i \in 1..Len(bnd.entries) : \E j \in 1..Len(packed.src) :
                 /\ packed.src[j].id = bnd.entries[i].id
                 /\ packed.src[j].data = bnd.entries[i].data

\* The permutation that puts the entries in ascending ID order, entries of
\* equal ID in collection order.
StableIdOrder(es) ==
    CHOOSE p \in [1..Len(es) -> 1..Len(es)] :
        \A i, j \in 1..Len(es) :
            i < j => \/ es[p[i]].id < es[p[j]].id
                     \/ es[p[i]].id = es[p[j]].id /\ p[i] < p[j]

\* The order pack emits the entries in: by ID for BND3, as they are for BND4.
EmissionOrder(version, es) ==
    IF version = "BND3" THEN StableIdOrder(es) ELSE [i \in 1..Len(es) |-> i]

PackedOk == last.op = "pack" /\ last.status = "ok" /\ packed.status = "ok"

\* The k-th record of the entry header table in the bytes of the last pack.
EmittedRecord(k) ==
    ParseEntryHeader(packed.bytes,
        IF bnd.version = "BND3" THEN HeaderSizeV3 + (k - 1) * EntryHeaderSizeV3(bnd.magic)
        ELSE HeaderSizeV4 + (k - 1) * EntryHeaderSizeV4(bnd.magic),
        bnd.version, bnd.magic, bnd.big_endian)

\* The data block the k-th record points at.
EmittedData(k) ==
    Slice(packed.bytes, EmittedRecord(k).data_offset, EmittedRecord(k).compressed_data_size)

\* C17: BND3.pack emits the entry header records, the paths and the data blocks
\* in ascending entry-ID order whatever the order of the collection, entries of
\* equal ID in collection order, and leaves the collection as it was.
C17_V3EmitsInIdOrder ==
    (PackedOk /\ bnd.version = "BND3") =>
        LET es == packed.src
            p == StableIdOrder(es)
        IN /\ bnd.entries = es
           /\ \A k \in 1..Len(es) :
                 LET e == es[p[k]]
                     r == EmittedRecord(k)
                 IN /\ r.entry_magic = e.magic
                    /\ has_id(bnd.magic) => r.entry_id = e.id
                    /\ EmittedData(k) = get_data_for_pack(e).data
                    /\ has_path(bnd.magic) =>
                          Slice(packed.bytes, r.path_offset, Len(e.path) + 1)
                              = EncodeText(e.path) \o <<0>>
           /\ \A j, k \in 1..Len(es) :
                 j < k => /\ EmittedRecord(j).data_offset <= EmittedRecord(k).data_offset
                          /\ has_path(bnd.magic) =>
                                EmittedRecord(j).path_offset < EmittedRecord(k).path_offset

\* A BND3 with ID and path fields packed three entries that were added in
\* descending ID order, two of them with the same ID.
C17_Witness ==
    /\ PackedOk
    /\ bnd.version = "BND3"
    /\ has_id(bnd.magic) /\ has_path(bnd.magic)
    /\ Len(packed.src) = 3
    /\ packed.src[1].id > packed.src[2].id
    /\ packed.src[2].id = packed.src[3].id

\* C18: in the output of BND3.pack the entry header table starts at the header
\* size, the path table at that offset plus entry-header size times entry count,
\* the data at the path-table offset plus the total encoded path bytes; the
\* header's file_size is the data offset plus the total packed data bytes and is
\* the length of the output; each record's data_offset is the data offset plus
\* the packed sizes of the entries emitted before it, so the data ranges are
\* disjoint and inside the file.
C18_V3Offsets ==
    (PackedOk /\ bnd.version = "BND3") =>
        LET es == packed.src
            n == Len(es)
            p == StableIdOrder(es)
            path_lens == [k \in 1..n |->
                IF has_path(bnd.magic) THEN Len(EncodeText(es[p[k]].path)) + 1 ELSE 0]
            data_lens == [k \in 1..n |-> Len(get_data_for_pack(es[p[k]]).data)]
            header_table == HeaderSizeV3
            path_table == header_table + EntryHeaderSizeV3(bnd.magic) * n
            data_start == path_table + SumSeq(path_lens)
            file_size == data_start + SumSeq(data_lens)
        IN /\ UnpackInt(Slice(packed.bytes, 16, 4), bnd.big_endian, TRUE) = n
           /\ UnpackInt(Slice(packed.bytes, 20, 4), bnd.big_endian, TRUE) = file_size
           /\ Len(packed.bytes) = file_size
           /\ \A k \in 1..n :
                 LET r == EmittedRecord(k)
                 IN /\ r.entry_magic = es[p[k]].magic
                    /\ r.compressed_data_size = data_lens[k]
                    /\ r.data_offset = data_start + SumSeq(SubSeq(data_lens, 1, k - 1))
                    /\ has_path(bnd.magic) =>
                          r.path_offset = path_table + SumSeq(SubSeq(path_lens, 1, k - 1))
                    /\ r.data_offset + r.compressed_data_size <= Len(packed.bytes)
           /\ \A j, k \in 1..n :
                 j < k => EmittedRecord(j).data_offset + EmittedRecord(j).compressed_data_size
                              <= EmittedRecord(k).data_offset

\* A big-endian BND3 with path fields packed three entries, the second record's
\* data after the first's.
C18_Witness ==
    /\ PackedOk
    /\ bnd.version = "BND3"
    /\ bnd.big_endian
    /\ has_path(bnd.magic)
    /\ Len(packed.src) = 3
    /\ EmittedRecord(2).data_offset > EmittedRecord(1).data_offset
    /\ EmittedRecord(1).data_offset > HeaderSizeV3

\* The uncompressed_data_size field of the k-th emitted entry record.
EmittedUncompressedSize(k) ==
    LET off == (IF bnd.version = "BND3" THEN HeaderSizeV3 + (k - 1) * EntryHeaderSizeV3(bnd.magic)
                ELSE HeaderSizeV4 + (k - 1) * EntryHeaderSizeV4(bnd.magic))
        hid == IF has_id(bnd.magic) THEN 1 ELSE 0
        hpath == IF has_path(bnd.magic) THEN 1 ELSE 0
    IN IF bnd.version = "BND3"
       THEN UnpackInt(Slice(packed.bytes, off + 12 + 4 * hid + 4 * hpath, 4), bnd.big_endian, TRUE)
       ELSE UnpackInt(Slice(packed.bytes, off + 16, 8), bnd.big_endian, TRUE)

\* C19: pack of either version emits, for an entry whose flags carry the
\* compression bit, the zlib-compressed form of its data with
\* compressed_data_size the compressed length, and for any other entry the
\* original bytes with compressed_data_size their length; the
\* uncompressed_data_size field, when the archive has one, is the original
\* length; the entries in memory keep their data.
C19_PackedSizes ==
    PackedOk =>
        LET es == packed.src
            p == EmissionOrder(bnd.version, es)
        IN /\ bnd.entries = es
           /\ \A k \in 1..Len(es) :
                 LET e == es[p[k]]
                     r == EmittedRecord(k)
                 IN /\ r.entry_magic = e.magic
                    /\ is_entry_compressed(e.magic) =>
                          /\ EmittedData(k) = zlib_compress(e.data)
                          /\ zlib_decompress(EmittedData(k)) = [status |-> "ok", data |-> e.data]
                          /\ r.compressed_data_size = Len(zlib_compress(e.data))
                    /\ ~is_entry_compressed(e.magic) =>
                          /\ EmittedData(k) = e.data
                          /\ r.compressed_data_size = Len(e.data)
                    /\ has_uncompressed_size(bnd.magic) =>
                          EmittedUncompressedSize(k) = Len(e.data)

\* A BND4 with an uncompressed-size field packed a compressed entry after an
\* uncompressed one.
C19_Witness ==
    /\ PackedOk
    /\ bnd.version = "BND4"
    /\ has_uncompressed_size(bnd.magic)
    /\ Len(packed.src) >= 2
    /\ \E j, k \in 1..Len(packed.src) :
          /\ j < k
          /\ ~is_entry_compressed(packed.src[j].magic)
          /\ packed.src[j].data # <<>>
          /\ is_entry_compressed(packed.src[k].magic)
          /\ EmittedRecord(k).compressed_data_size > Len(packed.src[k].data)

\* C20: BND4.pack separates consecutive entries' data by a pad of ten zero
\* bytes: an archive of N entries holds exactly N - 1 pads, and the first
\* entry's data starts at the data offset of the header.
C20_PadBetweenEntries ==
    (PackedOk /\ bnd.version = "BND4" /\ Len(packed.src) >= 1) =>
        LET n == Len(packed.src)
            data_offset == UnpackInt(Slice(packed.bytes, 40, 8), bnd.big_endian, TRUE)
            sizes == [k \in 1..n |-> EmittedRecord(k).compressed_data_size]
        IN /\ EmittedRecord(1).data_offset = data_offset
           /\ Len(packed.bytes) - data_offset = SumSeq(sizes) + EntryPad * (n - 1)
           /\ \A k \in 2..n :
                 EmittedRecord(k).data_offset =
                     EmittedRecord(k - 1).data_offset + sizes[k - 1] + EntryPad

\* C21: in the output of BND4.pack the sections follow in the order header,
\* entry header table, path table, hash table (only with hash_table_type 4),
\* data, each starting where the one before it ends: the header's
\* hash_table_offset is the end of the path table with hash_table_type 4 and 0
\* otherwise, and the header's data_offset is the end of the hash table, or of
\* the path table when there is none.
C21_V4SectionOrder ==
    (PackedOk /\ bnd.version = "BND4") =>
        LET es == packed.src
            n == Len(es)
            bs == packed.bytes
            big == bnd.big_endian
            record_size == 20 + (IF has_uncompressed_size(bnd.magic) THEN 8 ELSE 0)
                              + (IF has_id(bnd.magic) THEN 4 ELSE 0)
                              + (IF has_path(bnd.magic) THEN 4 ELSE 0)
                              + (IF bnd.magic = 32 THEN 8 ELSE 0)
            paths == IF has_path(bnd.magic)
                     THEN Flatten([k \in 1..n |-> get_packed_path(es[k])])
                     ELSE <<>>
            table_end == HeaderSizeV4 + record_size * n
            path_end == table_end + Len(paths)
            hash_table_offset == UnpackInt(Slice(bs, 56, 8), big, TRUE)
            data_offset == UnpackInt(Slice(bs, 40, 8), big, TRUE)
            record(k) == ParseEntryHeader(bs, HeaderSizeV4 + (k - 1) * record_size,
                                          "BND4", bnd.magic, big)
        IN /\ UnpackInt(Slice(bs, 16, 8), big, TRUE) = HeaderSizeV4
           /\ UnpackInt(Slice(bs, 32, 8), big, TRUE) = record_size
           /\ \A k \in 1..n :
                 /\ record(k).entry_magic = es[k].magic
                 /\ record(k).minus_one = -1
                 /\ has_path(bnd.magic) =>
                       record(k).path_offset =
                           table_end + Len(Flatten([j \in 1..(k - 1) |-> get_packed_path(es[j])]))
                 /\ record(k).data_offset >= data_offset
                 /\ record(k).data_offset + record(k).compressed_data_size <= Len(bs)
           /\ Slice(bs, table_end, Len(paths)) = paths
           /\ bnd.hash_table_type = 4 =>
                 /\ hash_table_offset = path_end
                 /\ data_offset = path_end + Len(packed.table)
                 /\ Slice(bs, path_end, Len(packed.table)) = packed.table
                 /\ Len(packed.table) >= HashTableHeaderSize
           /\ bnd.hash_table_type # 4 =>
                 /\ hash_table_offset = 0
                 /\ data_offset = path_end
           /\ data_offset <= Len(bs)
           /\ n >= 1 =>
                 record(n).data_offset + record(n).compressed_data_size = Len(bs)

\* A big-endian BND4 with hash_table_type 4 and two entries with paths was
\* packed.
C21_Witness ==
    /\ PackedOk
    /\ bnd.version = "BND4"
    /\ bnd.hash_table_type = 4
    /\ bnd.big_endian
    /\ has_uncompressed_size(bnd.magic)
    /\ Len(packed.src) = 2
    /\ UnpackInt(Slice(packed.bytes, 40, 8), TRUE, TRUE)
          > UnpackInt(Slice(packed.bytes, 56, 8), TRUE, TRUE)
    /\ UnpackInt(Slice(packed.bytes, 56, 8), TRUE, TRUE) > HeaderSizeV4

\* A BND4 without a hash table was packed with entries.
C21_WitnessNoTable ==
    /\ PackedOk
    /\ bnd.version = "BND4"
    /\ bnd.hash_table_type = 0
    /\ Len(packed.src) = 2
    /\ UnpackInt(Slice(packed.bytes, 56, 8), bnd.big_endian, TRUE) = 0

\* C22: a BND4 unpack of an archive with hash_table_type 4 caches exactly the
\* bytes from hash_table_offset up to the header's data offset; for bytes
\* produced by pack the cached bytes are the hash table that pack emitted, and
\* the snapshot of entry count and paths equals the unpacked entries.
C22_UnpackCachesHashTable ==
    (/\ last.op = "unpack"
     /\ last.status = "ok"
     /\ bnd.version = "BND4"
     /\ packed.status = "ok"
     /\ packed.bytes[51] = 4) =>
        /\ bnd.hash_table_type = 4
        /\ bnd.most_recent_hash_table = EmittedHashTable(packed.bytes, bnd.big_endian)
        /\ bnd.most_recent_hash_table = packed.table
        /\ bnd.most_recent_entry_count = Len(bnd.entries)
        /\ bnd.most_recent_paths = [i \in 1..Len(bnd.entries) |-> bnd.entries[i].path]

\* A packed BND4 with hash_table_type 4 and two entries with paths was
\* unpacked, the cache holding a table of one group record per bucket.
C22_Witness ==
    /\ last.op = "unpack"
    /\ last.status = "ok"
    /\ bnd.version = "BND4"
    /\ bnd.hash_table_type = 4
    /\ has_path(bnd.magic)
    /\ Len(bnd.entries) = 2
    /\ bnd.most_recent_paths = <<PathAB, PathB>>
    /\ Len(bnd.most_recent_hash_table) > HashTableHeaderSize
    /\ Len(packed.bytes) > UnpackInt(Slice(packed.bytes, 40, 8), FALSE, TRUE)

\* The bytes bs hold a whole BND4 header with the tag and the header size of
\* the format.
WholeHeaderV4(bs) ==
    /\ Len(bs) >= HeaderSizeV4
    /\ SubSeq(bs, 1, 4) = TagBND4
    /\ UnpackInt(Slice(bs, 16, 8),
                 UnpackInt(Slice(bs, 8, 4), FALSE, TRUE) = BigEndianMarker, TRUE) = HeaderSizeV4

\* C23: a BND4 unpack raises, adding no entry, when the entry header size the
\* header declares differs from header_size(magic); a non-zero hash table
\* offset with hash_table_type other than 4 only logs a warning, and the unpack
\* completes with all entries loaded.
C23_SizeFatalOffsetWarning ==
    [][(/\ last'.op = "unpack"
        /\ bnd.version = "BND4"
        /\ WholeHeaderV4(last'.key.text)) =>
          LET bs == last'.key.text
              big == UnpackInt(Slice(bs, 8, 4), FALSE, TRUE) = BigEndianMarker
              declared == UnpackInt(Slice(bs, 32, 8), big, TRUE)
              entry_count == UnpackInt(Slice(bs, 12, 4), big, TRUE)
              stray == bs[51] # 4 /\ UnpackInt(Slice(bs, 56, 8), big, TRUE) # 0
              fresh == last'.index = 1
              target == IF fresh THEN NewBND("BND4") ELSE bnd
              same == Unpack(target, PatchAt(bs, 56, Zeros(8)))
          IN /\ declared # header_size(UnpackSByte(bs[50])) =>
                   /\ last'.status = "ValueError"
                   /\ bnd'.entries = target.entries
                   /\ ~last'.warned
             /\ (declared = header_size(UnpackSByte(bs[50])) /\ stray) =>
                   /\ last'.warned
                   /\ last'.status = same.status
                   /\ bnd'.entries = same.bnd.entries
                   /\ fresh =>
                         /\ last'.status = "ok"
                         /\ Len(bnd'.entries) = entry_count
                         /\ Len(bnd'.entries) = Len(packed.src)
                         /\ \A i \in 1..Len(packed.src) :
                               bnd'.entries[i].data = packed.src[i].data]_vars

\* A new BND4 unpacked two entries from a file with a stray hash table offset,
\* with a warning.
C23_Witness ==
    /\ last.op = "unpack"
    /\ last.status = "ok"
    /\ last.warned
    /\ last.index = 1
    /\ bnd.version = "BND4"
    /\ bnd.hash_table_type = 0
    /\ bnd.hash_table_offset = StrayOffset
    /\ Len(bnd.entries) = 2

\* A BND4 holding entries refused a file whose declared entry header size is
\* not the one of its magic.
C23_WitnessFatal ==
    /\ last.op = "unpack"
    /\ last.status = "ValueError"
    /\ last.index = 0
    /\ bnd.version = "BND4"
    /\ WholeHeaderV4(last.key.text)
    /\ UnpackInt(Slice(last.key.text, 32, 8), FALSE, TRUE) = header_size(bnd.magic) + 4
    /\ Len(bnd.entries) = 2

\* The length of the fixed header prefix the unpack of a class reads first.
HeaderStartSize(version) == IF version = "BND3" THEN 14 ELSE 12

\* C24: unpack of a buffer whose four-byte tag is not the literal tag of the
\* class ("BND3", "BND4") raises the format-mismatch error (BNDError) before a
\* field of the archive (signature, magic, byte order, flags) or the entry
\* collection is changed.
C24_WrongTagRejected ==
    [][(/\ last'.op = "unpack"
        /\ Len(last'.key.text) >= HeaderStartSize(bnd.version)
        /\ SubSeq(last'.key.text, 1, 4) # ClassTag(bnd.version)) =>
          LET target == IF last'.index = 1 THEN NewBND(bnd.version) ELSE bnd
          IN /\ last'.status = "BNDError"
             /\ bnd' = [target EXCEPT !.header_struct = bnd'.header_struct]]_vars

\* C26: is_prime(p) is true exactly when p is a prime number, for every integer
\* p >= 0: 0 and 1 are not prime, 2 is prime, every odd composite is rejected.
C26_IsPrimeExact ==
    h_out.op = "is_prime" =>
        /\ h_out.hash \in {0, 1}
        /\ h_out.hash = 1 <=> IsPrimeNumber(h_count)
        /\ h_count \in {0, 1} => h_out.hash = 0
        /\ h_count = 2 => h_out.hash = 1

\* is_prime was asked about the odd composite 49 and answered False.
C26_Witness ==
    /\ h_out.op = "is_prime"
    /\ h_count = 49
    /\ h_out.hash = 0

\* C25: the table build_hash_table serializes has one (start index, length)
\* record per group; the groups' ranges are contiguous and in bucket order (each
\* start index is the sum of the lengths of the earlier groups), the lengths sum
\* to the entry count, every entry index 0..n-1 appears exactly once in the
\* flattened array, and the header's offset to the path-hash array is the header
\* record size plus the size of all group records.
C25_HashTableLayout ==
    h_out.op = "build_hash_table" =>
        LET t == h_out.table
            n == Len(h_out.src)
            field(off) == UnpackInt(Slice(t, off, 4), FALSE, TRUE)
            group_count == field(16)
            path_hashes_offset == UnpackInt(Slice(t, 8, 8), FALSE, TRUE)
            length(g) == field(HashTableHeaderSize + 8 * (g - 1))
            index(g) == field(HashTableHeaderSize + 8 * (g - 1) + 4)
            hashed_value(k) == field(path_hashes_offset + 8 * k)
            entry_index(k) == field(path_hashes_offset + 8 * k + 4)
        IN /\ group_count = h_out.groups
           /\ field(20) = HashTableTag
           /\ path_hashes_offset = HashTableHeaderSize + 8 * group_count
           /\ Len(t) = path_hashes_offset + 8 * n
           /\ \A g \in 1..group_count :
                 /\ length(g) >= 0
                 /\ index(g) = SumSeq([j \in 1..(g - 1) |-> length(j)])
                 /\ \A k \in index(g)..(index(g) + length(g) - 1) :
                       hashed_value(k) % group_count = g - 1
           /\ SumSeq([g \in 1..group_count |-> length(g)]) = n
           /\ \A i \in 0..(n - 1) :
                 Cardinality({k \in 0..(n - 1) : entry_index(k) = i}) = 1

\* A table of three groups, two of them with records, for 21 entries.
C25_Witness ==
    /\ h_out.op = "build_hash_table"
    /\ h_out.groups = 3
    /\ Len(h_out.src) = ManifestSize
    /\ Len(h_out.table) = HashTableHeaderSize + 8 * 3 + 8 * ManifestSize
    /\ Cardinality({g \in 1..3 : h_out.lists[g] # <<>>}) >= 2

\* C27: write_unpacked_dir on an archive whose magic has no path field fails
\* with an error before anything is written: no directory is created, no file
\* is written and the archive is unchanged.
C27_ExportNeedsPaths ==
    [][(last'.op = "write_unpacked_dir" /\ ~has_path(bnd.magic)) =>
          /\ last'.status = "TypeError"
          /\ disk' = disk
          /\ bnd' = bnd]_vars

\* An archive with an ID field and no path field, holding two entries, refused
\* the export, and there is no directory.
C27_Witness ==
    /\ last.op = "write_unpacked_dir"
    /\ last.status = "TypeError"
    /\ has_id(bnd.magic)
    /\ ~has_path(bnd.magic)
    /\ Len(bnd.entries) = 2
    /\ ~disk.exists
    /\ disk.files = <<>>

\* C29: write_unpacked_dir of an archive with paths followed by load_unpacked_dir
\* of the directory yields an archive whose entries equal the original ones on
\* (id, path, magic, data), for every archive with unique IDs, also with entries
\* marked compressed by their magic and with entries that share a basename.
C29_DirectoryRoundTrip ==
    (/\ last.op = "load_directory"
     /\ disk.exists
     /\ has_path(disk.manifest.magic)
     /\ UniqueIds(disk.src)) =>
        /\ last.status = "ok"
        /\ SameMultiset(bnd.entries, disk.src)

\* The positions of the entries a key identifies: the entries with the ID, or
\* the entries with the path and, when no entry has it, those with the basename.
Identified(entries, key) ==
    IF key.kind = "int"
    THEN {i \in 1..Len(entries) : entries[i].id = key.id}
    ELSE IF \E i \in 1..Len(entries) : entries[i].path = key.text
    THEN {i \in 1..Len(entries) : entries[i].path = key.text}
    ELSE {i \in 1..Len(entries) : EntryName(entries[i]) = key.text}

WithoutIndex(entries, i) == SubSeq(entries, 1, i - 1) \o SubSeq(entries, i + 1, Len(entries))

\* C30: remove_entry with an ID, a path or a basename that identifies exactly
\* one entry removes that entry and nothing else, the other entries keeping
\* their order (a string key is a full path first, then a basename); with a key
\* that identifies no entry it raises and the collection is unchanged.
C30_RemoveExactlyOne ==
    [][last'.op = "remove_entry" =>
          /\ \A i \in 1..Len(bnd.entries) :
                 Identified(bnd.entries, last'.key) = {i} =>
                     /\ last'.status = "ok"
                     /\ bnd'.entries = WithoutIndex(bnd.entries, i)
          /\ Identified(bnd.entries, last'.key) = {} =>
                 /\ last'.status # "ok"
                 /\ bnd'.entries = bnd.entries]_vars

\* C28: a BND4 archive with hash_table_type 4 was unpacked from a file whose
\* hash table is the table of its entries; after any sequence of path edits,
\* add_entry, remove_entry and pack calls, the hash table each pack emits is
\* the table build_hash_table produces for the entries present at that pack.
C28_PackEmitsCurrentTable ==
    [][PackStepV4 =>
          EmittedHashTable(packed'.bytes, bnd.big_endian) = build_hash_table(bnd.entries)]_vars

====
